---------------------------- MODULE Spec2Model ----------------------------
(***************************************************************************)
(* A model of the MartyPC system bus (core/src/bus.rs): the timing table,  *)
(* the flat address space with its per-byte flag array, the MMIO map and   *)
(* the memory dispatcher, the I/O port map, the device slots and the       *)
(* device scheduler run_devices.                                           *)
(*                                                                         *)
(* A device is modelled by what the bus can see of it: the calls it        *)
(* receives and the values it hands back.  Elapsed microseconds are whole  *)
(* numbers.                                                                *)
(*                                                                         *)
(* The address space is scaled: MMIO_MAP_LEN buckets of MMIO_MAP_SIZE      *)
(* bytes stand for the 128 buckets of 0x2000 bytes of the source.          *)
(* Floating-point fields (TimingTableEntry.us) are left out.               *)
(*                                                                         *)
(* The two lookup tables of the bus are held by what they were filled      *)
(* from: update_timing_table and recalculate_cycle_lut fill every entry    *)
(* from the clock factor alone, so the factor a table was last filled for  *)
(* determines all of its entries (TimingTableOf, CycleLutOf).              *)
(***************************************************************************)
EXTENDS Integers, Sequences, FiniteSets, TLC

\* ------------------------------------------------------------- bounds ---
\* Largest divisor / multiplier drawn for a ClockFactor (a u8 in the source).
MaxFactor == 4
\* Buckets of the fast MMIO map, and addresses per bucket (scaled).
MMIO_MAP_LEN == 2
MMIO_MAP_SIZE == 2

\* Operations that change the bus, per behaviour.
MaxOps == 2
\* Largest wait (in system ticks) a video card reports.
MaxDevWait == 1
\* run_devices invocations in a behaviour.
MaxRuns == 2
\* Port I/O calls in a behaviour.
MaxIo == 2

\* ---------------------------------------------------- program constants ---
TIMING_TABLE_LEN == 512
KB_UPDATE_RATE == 5000
CYCLE_LUT_LEN == 256
DEFAULT_WAIT_STATES == 0
OPEN_BUS_BYTE == 255
MEM_ROM_BIT == 128
MEM_RET_BIT == 64
MEM_BPE_BIT == 32
MEM_BPA_BIT == 16
MEM_CP_BIT == 8
MEM_MMIO_BIT == 4

ADDRESS_SPACE == MMIO_MAP_LEN * MMIO_MAP_SIZE

VARIABLES
    cpu_factor,        \* BusInterface.cpu_factor
    timing_table,      \* BusInterface.timing_table: the factor it was filled for
    cycles_to_ticks,   \* BusInterface.cycles_to_ticks: the factor it was filled for
    table_arg,         \* the table handed to a direct update_timing_table call
    conventional_size, \* BusInterface.conventional_size
    memory,            \* BusInterface.memory
    memory_mask,       \* BusInterface.memory_mask
    desc_vec,          \* BusInterface.desc_vec
    mmio_map,          \* BusInterface.mmio_map
    mmio_map_fast,     \* BusInterface.mmio_map_fast
    mmio_data,         \* BusInterface.mmio_data
    videocards,        \* BusInterface.videocards: id -> card
    panicked,          \* a call ended in a panic
    nops,              \* bus-changing operations so far
    last_written,      \* history: per address, the byte of the last effective write_u8
    machine_desc,      \* BusInterface.machine_desc
    io_map,            \* BusInterface.io_map: port -> device tag
    slots,             \* the Option<device> fields: keyboard, ppi, pit, dma1, ... mouse
    cursor,            \* BusInterface.cursor
    dma_counter,       \* BusInterface.dma_counter
    pit_ticks_advance, \* BusInterface.pit_ticks_advance
    timer_trigger1_armed, \* BusInterface.timer_trigger1_armed
    timer_trigger2_armed, \* BusInterface.timer_trigger2_armed
    cga_tick_accum,    \* BusInterface.cga_tick_accum
    kb_us_accum,       \* BusInterface.kb_us_accum
    refresh_active,    \* BusInterface.refresh_active
    nruns,             \* run_devices invocations so far
    nio,               \* port I/O calls so far
    mach,              \* the Machine that owns the bus, and where its run loop stands
    ret                \* the last call: its name, arguments and result

timingvars == <<cpu_factor, timing_table, cycles_to_ticks>>
memvars == <<conventional_size, memory, memory_mask, desc_vec, mmio_map, mmio_map_fast,
             mmio_data, videocards>>
accumvars == <<cursor, dma_counter, pit_ticks_advance, timer_trigger1_armed,
               timer_trigger2_armed, cga_tick_accum, kb_us_accum, refresh_active>>
devvars == <<machine_desc, io_map, slots, accumvars, nruns, nio>>
busvars == <<memvars, panicked, nops, last_written, devvars, mach>>
vars == <<timingvars, table_arg, busvars, ret>>

\* ---------------------------------------------------------- bit masks ---
RECURSIVE BitAndW(_, _, _)
BitAndW(x, y, w) ==
    IF w = 0 THEN 0 ELSE ((x % 2) * (y % 2)) + 2 * BitAndW(x \div 2, y \div 2, w - 1)

BitAnd(x, y) == BitAndW(x, y, 8)
BitOr(x, y) == x + y - BitAnd(x, y)
BitNot(x) == 255 - x

\* ---------------------------------------------------- the CPU's stack ---
\* u16::wrapping_sub and u16::wrapping_add.
wrapping_sub(a, b) == (a + 65536 - (b % 65536)) % 65536
wrapping_add(a, b) == (a + b) % 65536

\* The registers push_register16 and pop_register16 accept; every other
\* Register16 reaches the panic arm.
StackRegisters ==
    {"AX", "BX", "CX", "DX", "SP", "BP", "SI", "DI", "CS", "DS", "SS", "ES", "IP"}

\* The masks of pop_flags and the trap bit of get_flag(Flag::Trap).  Their
\* values are defined with the CPU, outside stack.rs: four reserved bits on
\* top and bit 1 are always set, bits 1, 3 and 5 are never popped.
FLAGS_POP_MASK == 4053
CPU_FLAGS_RESERVED_ON == 61442
CPU_FLAG_TRAP == 256
get_flag(c, flag) == BitAndW(c.flags, flag, 16) # 0

\* The CPU after construction.  regs holds every 16-bit register but SP;
\* mem holds the bytes the bus interface unit has written, by linear
\* address (memory starts zeroed).
CpuNew ==
    [sp |-> 0, flags |-> CPU_FLAGS_RESERVED_ON,
     regs |-> [r \in StackRegisters \ {"SP"} |-> 0],
     interrupt_inhibit |-> FALSE, trap_enable_delay |-> 0, trap_disable_delay |-> 0,
     mem |-> <<>>]

\* The bus interface unit: the linear address of seg:offset, and byte and
\* word transfers at it.  A word goes as two bytes, low byte first, the
\* second at the next offset of the segment.  flag selects bus timing only.
calc_linear_address(seg, offset) == ((seg * 16) + offset) % 1048576
MemByte(c, a) == IF a \in DOMAIN c.mem THEN c.mem[a] ELSE 0
StoreByte(mem, a, byte) == [x \in (DOMAIN mem) \cup {a} |-> IF x = a THEN byte ELSE mem[x]]
biu_write_u8(c, offset, byte, flag) ==
    [c EXCEPT !.mem = StoreByte(@, calc_linear_address(c.regs["SS"], offset), byte)]
biu_write_u16(c, offset, word, flag) ==
    biu_write_u8(biu_write_u8(c, offset, word % 256, flag),
                 wrapping_add(offset, 1), word \div 256, flag)
biu_read_u16(c, offset, flag) ==
    MemByte(c, calc_linear_address(c.regs["SS"], offset))
        + 256 * MemByte(c, calc_linear_address(c.regs["SS"], wrapping_add(offset, 1)))

\* What a stack routine leaves: the CPU, the value returned, and whether
\* it panicked.
StackRet(c, result, panic) == [cpu |-> c, result |-> result, panic |-> panic]

\* A pop_u16 that moves SP up by one byte only.
pop_u16_ByOne(c) ==
    StackRet([c EXCEPT !.sp = wrapping_add(c.sp, 1)], biu_read_u16(c, c.sp, "Normal"), FALSE)

push_u8(c, data, flag) ==
    LET sp == wrapping_sub(c.sp, 2)
    IN  StackRet(biu_write_u8([c EXCEPT !.sp = sp], sp, data, flag), <<>>, FALSE)

push_u16(c, data, flag) ==
    LET sp == wrapping_sub(c.sp, 2)
    IN  StackRet(biu_write_u16([c EXCEPT !.sp = sp], sp, data, flag), <<>>, FALSE)

pop_u16(c) ==
    StackRet([c EXCEPT !.sp = wrapping_add(c.sp, 2)], biu_read_u16(c, c.sp, "Normal"), FALSE)

\* The register is read after SP has moved, so pushing SP stores the new SP.
push_register16(c, reg, flag) ==
    LET sp == wrapping_sub(c.sp, 2)
        moved == [c EXCEPT !.sp = sp]
    IN  IF reg \notin StackRegisters THEN StackRet(moved, <<>>, TRUE)
        ELSE LET data == IF reg = "SP" THEN moved.sp ELSE moved.regs[reg]
             IN  StackRet(biu_write_u16(moved, sp, data, flag), <<>>, FALSE)

pop_register16(c, reg, flag) ==
    LET data == biu_read_u16(c, c.sp, flag)
    IN  IF reg \notin StackRegisters THEN StackRet(c, <<>>, TRUE)
        ELSE IF reg = "SP" THEN StackRet([c EXCEPT !.sp = data], <<>>, FALSE)
        ELSE StackRet([c EXCEPT !.regs[reg] = data,
                                !.interrupt_inhibit = IF reg = "SS" THEN TRUE ELSE @,
                                !.sp = wrapping_add(c.sp, 2)], <<>>, FALSE)

push_flags(c, wflag) ==
    LET sp == wrapping_sub(c.sp, 2)
    IN  StackRet(biu_write_u16([c EXCEPT !.sp = sp], sp, c.flags, wflag), <<>>, FALSE)

pop_flags(c) ==
    LET result == biu_read_u16(c, c.sp, "Normal")
        trap_was_set == get_flag(c, CPU_FLAG_TRAP)
        flags == BitAndW(result, FLAGS_POP_MASK, 16)
                     + CPU_FLAGS_RESERVED_ON
                     - BitAndW(BitAndW(result, FLAGS_POP_MASK, 16), CPU_FLAGS_RESERVED_ON, 16)
        trap_is_set == BitAndW(flags, CPU_FLAG_TRAP, 16) # 0
    IN  StackRet([c EXCEPT !.flags = flags,
                           !.trap_enable_delay = IF ~trap_was_set /\ trap_is_set THEN 2 ELSE @,
                           !.trap_disable_delay = IF trap_was_set /\ ~trap_is_set THEN 1 ELSE @,
                           !.sp = wrapping_add(c.sp, 2)], <<>>, FALSE)

\* ------------------------------------------------------------- timing ---
Divisor(n) == [kind |-> "Divisor", n |-> n]
Multiplier(n) == [kind |-> "Multiplier", n |-> n]
ClockFactors == {Divisor(n) : n \in 1..MaxFactor} \cup {Multiplier(n) : n \in 1..MaxFactor}

\* Cycle counts handed to the timing queries.
CycleArgs == {0, 1, MaxFactor, MaxFactor + 1, TIMING_TABLE_LEN - 1}

TimingSysTicks_OffByOne(clock_factor, cycles) ==
    IF clock_factor.kind = "Divisor"
    THEN (cycles + clock_factor.n) \div clock_factor.n
    ELSE cycles * clock_factor.n

\* The sys_ticks of one entry, as update_timing_table computes it.
TimingSysTicks(clock_factor, cycles) ==
    IF clock_factor.kind = "Divisor"
    THEN (cycles + clock_factor.n - 1) \div clock_factor.n
    ELSE cycles * clock_factor.n

\* DeviceRunContext::new: the delta_ticks of a context built from CPU ticks.
DeviceRunContextNew(cpu_ticks, factor) ==
    [delta_ticks |-> IF factor.kind = "Divisor"
                     THEN (cpu_ticks + factor.n - 1) \div factor.n
                     ELSE cpu_ticks * factor.n]

update_timing_table(clock_factor) ==
    [cycles \in 0..(TIMING_TABLE_LEN - 1) |-> TimingSysTicks(clock_factor, cycles)]

\* A table as the bus holds it, and its entries.
Unfilled == [filled |-> FALSE, factor |-> [kind |-> "Divisor", n |-> 1]]
FilledFor(factor) == [filled |-> TRUE, factor |-> factor]
TimingTableOf(t) ==
    IF t.filled THEN update_timing_table(t.factor)
    ELSE [cycles \in 0..(TIMING_TABLE_LEN - 1) |-> 0]
TimingEntry(t, cycles) == IF t.filled THEN TimingSysTicks(t.factor, cycles) ELSE 0

cpu_cycles_to_system_ticks(factor, cycles) ==
    IF factor.kind = "Divisor"
    THEN cycles * factor.n
    ELSE cycles \div factor.n

system_ticks_to_cpu_cycles(factor, ticks) ==
    IF factor.kind = "Divisor"
    THEN (ticks + factor.n - 1) \div factor.n
    ELSE ticks * factor.n

recalculate_cycle_lut(factor) ==
    [c \in 0..(CYCLE_LUT_LEN - 1) |-> cpu_cycles_to_system_ticks(factor, c)]

CycleLutOf(t) ==
    IF t.filled THEN recalculate_cycle_lut(t.factor)
    ELSE [c \in 0..(CYCLE_LUT_LEN - 1) |-> 0]
\* self.cycles_to_ticks[cycles as usize]
CyclesToTicks(cycles) ==
    IF cycles_to_ticks.filled THEN cpu_cycles_to_system_ticks(cycles_to_ticks.factor, cycles) ELSE 0

\* ------------------------------------------------------- call records ---
\* A call record holds the operation, its arguments and its result; the
\* record of a call that reached a video card also holds dev_wait, the wait
\* in system ticks the card handed back.
NoCall == [op |-> "none", arg |-> <<>>, res |-> <<>>]
Ok(val, wait) == [ok |-> TRUE, val |-> val, wait |-> wait, err |-> "none"]
Err(e) == [ok |-> FALSE, val |-> 0, wait |-> 0, err |-> e]
Access(address, data, cycles) == [address |-> address, data |-> data, cycles |-> cycles]

\* ------------------------------------------------------- construction ---
NoVid == [idx |-> 0, vtype |-> "None"]
TagMemory == [kind |-> "Memory", vid |-> NoVid]
TagVideo(vid) == [kind |-> "Video", vid |-> vid]
NoByte == 0 - 1

\* The Option<device> fields of the bus, by field name.
SlotNames == {"keyboard", "ppi", "pit", "dma1", "dma2", "pic1", "pic2", "serial", "fdc",
              "hdc", "mouse"}
\* None in a slot, and Some(device): the device's own state and the last
\* call it received from the bus.
Absent == [present |-> FALSE]
NoIo == [method |-> "none", port |-> 0, data |-> 0, ticks |-> 0]
Device(st) == [present |-> TRUE, last |-> NoIo, st |-> st]

\* MachineDescriptor, as far as the bus reads it: whether the machine has a
\* PPI and whether its timer has a crystal of its own.
MachineDescriptor(have_ppi, timer_crystal) ==
    [have_ppi |-> have_ppi, timer_crystal |-> timer_crystal]
MachineXT == MachineDescriptor(TRUE, FALSE)
MachineAT == MachineDescriptor(FALSE, TRUE)

\* BusInterface::default: the fields the constructor does not set.
BusDefault ==
    /\ io_map = <<>>
    /\ slots = [n \in SlotNames |-> Absent]
    /\ cursor = 0
    /\ dma_counter = 0
    /\ pit_ticks_advance = 0
    /\ timer_trigger1_armed = FALSE
    /\ timer_trigger2_armed = FALSE
    /\ cga_tick_accum = 0
    /\ kb_us_accum = 0
    /\ refresh_active = FALSE
    /\ conventional_size = ADDRESS_SPACE
    /\ memory = [a \in 0..(ADDRESS_SPACE - 1) |-> OPEN_BUS_BYTE]
    /\ memory_mask = [a \in 0..(ADDRESS_SPACE - 1) |-> 0]
    /\ desc_vec = <<>>
    /\ mmio_map = <<>>
    /\ mmio_map_fast = [b \in 0..(MMIO_MAP_LEN - 1) |-> TagMemory]
    /\ mmio_data = [first_map |-> ADDRESS_SPACE - 1, last_map |-> 0]
    /\ videocards = <<>>
    /\ cycles_to_ticks = Unfilled

\* BusInterface::new: the timing table is built for the factor given.
BusNew(factor) ==
    /\ cpu_factor = factor
    /\ machine_desc = MachineXT
    /\ timing_table = FilledFor(factor)
    /\ BusDefault

\* ExecutionControl::new and the fields Machine::new sets that the run loop
\* uses.  Outside a run the loop's locals hold their initial values.  The
\* CPU is known by what its calls return; cpu_error is its is_error().
\* history: nsteps counts the CPU steps, last_step is the kind of result of
\* the latest one, devs_since counts the run_devices calls made after it,
\* and bus_call is the latest call passed on to the bus.
ExecutionControlNew == [state |-> "Paused", op |-> "None"]
NoLocals ==
    [kb_event_processed |-> FALSE, skip_breakpoint |-> FALSE, instr_count |-> 0,
     step_over |-> FALSE, cycle_target_adj |-> 0, cycles_elapsed |-> 0, cpu_cycles |-> 0,
     step_over_target |-> FALSE, step_over_cycles |-> 0, at_target |-> FALSE]
NoBusCall == [cycles |-> 0, kb_byte_opt |-> <<>>]
MachineNew ==
    [exec |-> ExecutionControlNew, kb_buf |-> <<>>, error |-> FALSE, cpu_cycles |-> 0,
     cpu_error |-> FALSE, pc |-> "idle", loc |-> NoLocals, result |-> 0,
     nsteps |-> 0, last_step |-> "none", devs_since |-> 0, bus_call |-> NoBusCall,
     cpu |-> CpuNew, nstack |-> 0]

InitCommon ==
    /\ mach = MachineNew
    /\ table_arg = Unfilled
    /\ panicked = FALSE
    /\ nops = 0
    /\ nruns = 0
    /\ nio = 0
    /\ last_written = [a \in 0..(ADDRESS_SPACE - 1) |-> NoByte]
    /\ ret = NoCall

InitTiming ==
    /\ \E factor \in ClockFactors : BusNew(factor)
    /\ InitCommon

\* ------------------------------------------------- timing operations ---
set_cpu_factor(factor) ==
    /\ cpu_factor' = factor
    /\ cycles_to_ticks' = FilledFor(factor)
    /\ UNCHANGED timing_table

SetCpuFactor ==
    \E factor \in ClockFactors :
        /\ set_cpu_factor(factor)
        /\ ret' = [op |-> "set_cpu_factor", arg |-> factor, res |-> <<>>]
        /\ UNCHANGED <<table_arg, busvars>>

\* A direct call of the associated function on a caller's table.
UpdateTimingTable ==
    \E factor \in ClockFactors :
        /\ table_arg' = FilledFor(factor)
        /\ ret' = [op |-> "update_timing_table", arg |-> factor, res |-> <<>>]
        /\ UNCHANGED <<timingvars, busvars>>

GetTimingsForCycles ==
    \E cycles \in CycleArgs :
        /\ ret' = [op |-> "get_timings_for_cycles", arg |-> cycles,
                   res |-> TimingEntry(timing_table, cycles)]
        /\ UNCHANGED <<timingvars, table_arg, busvars>>

SetContextTimings ==
    \E cycles \in CycleArgs :
        /\ ret' = [op |-> "set_context_timings", arg |-> cycles,
                   res |-> TimingEntry(timing_table, cycles)]
        /\ UNCHANGED <<timingvars, table_arg, busvars>>

NextTiming ==
    \/ SetCpuFactor
    \/ UpdateTimingTable
    \/ GetTimingsForCycles
    \/ SetContextTimings

SpecTiming == InitTiming /\ [][NextTiming]_vars


\* ------------------------------------------------------- bus: inputs ---
\* Addresses handed to the bus: one inside the first bucket, the first of
\* the second bucket, the last address and one past it.
AddrArgs == {1, MMIO_MAP_SIZE, ADDRESS_SPACE - 1, ADDRESS_SPACE}
ByteArgs == {17, 34}
WordArgs == {13124}
BusCycleArgs == {3}
FlagArgs == {MEM_MMIO_BIT, 255}
SrcArgs == {<<85>>, <<85, 102>>}
ConvArgs == {0, MMIO_MAP_SIZE + 1, ADDRESS_SPACE}
DevBytes == {119}

\* Video cards: the one install_devices creates, and an id no card has.
Vid(idx, vtype) == [idx |-> idx, vtype |-> vtype]
VidInstalled == Vid(0, "CGA")
VidMissing == Vid(1, "CGA")
TagArgs == {TagVideo(VidInstalled), TagVideo(VidMissing)}

MemRangeDescriptor(address, size, cycle_cost, read_only) ==
    [address |-> address, size |-> size, cycle_cost |-> cycle_cost, read_only |-> read_only]

\* Ranges handed to register_map: each bucket, an unaligned start, and a
\* size that is no multiple of the bucket size.
RangeArgs ==
    {MemRangeDescriptor(0, MMIO_MAP_SIZE, 0, FALSE),
     MemRangeDescriptor((MMIO_MAP_LEN - 1) * MMIO_MAP_SIZE, MMIO_MAP_SIZE, 0, FALSE),
     MemRangeDescriptor(1, MMIO_MAP_SIZE, 0, FALSE),
     MemRangeDescriptor(0, MMIO_MAP_SIZE - 1, 0, FALSE)}

\* The aperture of the CGA card (devices/cga.rs), scaled: the last bucket.
CGA_MEM_ADDRESS == (MMIO_MAP_LEN - 1) * MMIO_MAP_SIZE
CGA_MEM_APERTURE == MMIO_MAP_SIZE

\* ------------------------------------------------------ bus: helpers ---
MemLen == ADDRESS_SPACE
IsMmio(mask) == BitAnd(mask, MEM_MMIO_BIT) # 0
IsRom(mask) == BitAnd(mask, MEM_ROM_BIT) # 0
IsMmioOrRom_RomForgotten(mask) == BitAnd(mask, MEM_MMIO_BIT) # 0
\* The test of the write paths: mask & (MEM_MMIO_BIT | MEM_ROM_BIT) != 0.
IsMmioOrRom(mask) == BitAnd(mask, BitOr(MEM_MMIO_BIT, MEM_ROM_BIT)) # 0
Bucket(address) == address \div MMIO_MAP_SIZE

\* The card an MMIO access at `address` is dispatched to, or NoVid:
\* the bucket's tag is Video(vid) and videocards holds vid.
ResolveCard(address) ==
    LET tag == mmio_map_fast[Bucket(address)]
    IN  IF tag.kind = "Video" /\ tag.vid \in DOMAIN videocards THEN tag.vid ELSE NoVid

\* A memory-mapped call reaches the card: the card records it.
CardCall(vid, method, address, data, ticks) ==
    videocards' = [videocards EXCEPT ![vid].last =
                      [method |-> method, address |-> address, data |-> data, ticks |-> ticks]]

Lo(w) == w % 256
Hi(w) == w \div 256
Word(lo, hi) == lo + 256 * hi

Quiet == UNCHANGED <<timingvars, table_arg, panicked, nops, devvars, mach>>
CountedCall ==
    /\ ~panicked
    /\ nops < MaxOps
    /\ nops' = nops + 1
    /\ UNCHANGED <<timingvars, table_arg, mach>>
Counted == CountedCall /\ UNCHANGED devvars

\* ------------------------------------------------- bus: wait queries ---
get_wait(op, method, address, cycles) ==
    IF address < MemLen
    THEN IF ~IsMmio(memory_mask[address])
         THEN /\ ret' = [op |-> op, arg |-> Access(address, 0, cycles),
                         res |-> Ok(0, DEFAULT_WAIT_STATES)]
              /\ UNCHANGED videocards
         ELSE LET system_ticks == cpu_cycles_to_system_ticks(cpu_factor, cycles)
                  vid == ResolveCard(address)
              IN  IF vid # NoVid
                  THEN \E syswait \in 0..MaxDevWait :
                          /\ CardCall(vid, method, address, 0, system_ticks)
                          /\ ret' = [op |-> op, arg |-> Access(address, 0, cycles),
                                     res |-> Ok(0, system_ticks_to_cpu_cycles(cpu_factor, syswait)),
                                     dev_wait |-> syswait]
                  ELSE /\ ret' = [op |-> op, arg |-> Access(address, 0, cycles),
                                  res |-> Ok(0, DEFAULT_WAIT_STATES)]
                       /\ UNCHANGED videocards
    ELSE /\ ret' = [op |-> op, arg |-> Access(address, 0, cycles),
                    res |-> Err("ReadOutOfBoundsError")]
         /\ UNCHANGED videocards

GetReadWait ==
    \E address \in AddrArgs, cycles \in BusCycleArgs :
        /\ ~panicked
        /\ get_wait("get_read_wait", "get_read_wait", address, cycles)
        /\ Quiet
        /\ UNCHANGED <<conventional_size, memory, memory_mask, desc_vec, mmio_map,
                       mmio_map_fast, mmio_data, last_written>>

GetWriteWait ==
    \E address \in AddrArgs, cycles \in BusCycleArgs :
        /\ ~panicked
        /\ get_wait("get_write_wait", "get_write_wait", address, cycles)
        /\ Quiet
        /\ UNCHANGED <<conventional_size, memory, memory_mask, desc_vec, mmio_map,
                       mmio_map_fast, mmio_data, last_written>>

\* -------------------------------------------------------- bus: reads ---
InBounds8(address) == address < MemLen
InBounds16(address) == address < MemLen - 1

read_u8(address, cycles) ==
    IF InBounds8(address)
    THEN IF ~IsMmio(memory_mask[address])
         THEN /\ ret' = [op |-> "read_u8", arg |-> Access(address, 0, cycles),
                         res |-> Ok(memory[address], 0)]
              /\ UNCHANGED videocards
         ELSE LET system_ticks == cpu_cycles_to_system_ticks(cpu_factor, cycles)
                  vid == ResolveCard(address)
              IN  IF vid # NoVid
                  THEN \E data \in DevBytes, waits \in 0..MaxDevWait :
                          /\ CardCall(vid, "mmio_read_u8", address, 0, system_ticks)
                          /\ ret' = [op |-> "read_u8", arg |-> Access(address, 0, cycles),
                                     res |-> Ok(data, 0), dev_wait |-> waits]
                  ELSE /\ ret' = [op |-> "read_u8", arg |-> Access(address, 0, cycles),
                                  res |-> Err("MmioError")]
                       /\ UNCHANGED videocards
    ELSE /\ ret' = [op |-> "read_u8", arg |-> Access(address, 0, cycles),
                    res |-> Err("ReadOutOfBoundsError")]
         /\ UNCHANGED videocards

ReadU8 ==
    \E address \in AddrArgs, cycles \in BusCycleArgs :
        /\ ~panicked
        /\ read_u8(address, cycles)
        /\ Quiet
        /\ UNCHANGED <<conventional_size, memory, memory_mask, desc_vec, mmio_map,
                       mmio_map_fast, mmio_data, last_written>>

peek_u8_Clamped(address) ==
    LET clamped == IF address < MemLen THEN address ELSE MemLen - 1
    IN  IF ~IsMmio(memory_mask[clamped]) THEN Ok(memory[clamped], 0) ELSE Err("MmioError")

\* A peek that reads the byte after the one asked for.
peek_u8_Neighbour(address) ==
    IF InBounds8(address)
    THEN IF ~IsMmio(memory_mask[address])
         THEN Ok(memory[IF InBounds8(address + 1) THEN address + 1 ELSE address], 0)
         ELSE Err("MmioError")
    ELSE Err("ReadOutOfBoundsError")

peek_u8(address) ==
    IF InBounds8(address)
    THEN IF ~IsMmio(memory_mask[address])
         THEN Ok(memory[address], 0)
         ELSE IF ResolveCard(address) # NoVid
              THEN Ok(CHOOSE data \in DevBytes : TRUE, 0)
              ELSE Err("MmioError")
    ELSE Err("ReadOutOfBoundsError")

PeekU8 ==
    \E address \in AddrArgs :
        /\ ~panicked
        /\ ret' = [op |-> "peek_u8", arg |-> Access(address, 0, 0), res |-> peek_u8(address)]
        /\ Quiet
        /\ UNCHANGED <<memvars, last_written>>

\* Whether the card's 16-bit read reports its wait (MDA, CGA) or drops it.
ReportsWait16(vid) == vid.vtype \in {"MDA", "CGA"}

read_u16(address, cycles) ==
    IF InBounds16(address)
    THEN IF ~IsMmio(memory_mask[address])
         THEN /\ ret' = [op |-> "read_u16", arg |-> Access(address, 0, cycles),
                         res |-> Ok(Word(memory[address], memory[address + 1]),
                                    DEFAULT_WAIT_STATES)]
              /\ UNCHANGED videocards
         ELSE LET vid == ResolveCard(address)
              IN  IF vid # NoVid
                  THEN LET system_ticks == CyclesToTicks(cycles)
                       IN  \E lo \in DevBytes, hi \in DevBytes, syswait \in 0..MaxDevWait :
                              /\ CardCall(vid, "mmio_read_u16", address, 0, system_ticks)
                              /\ ret' = [op |-> "read_u16", arg |-> Access(address, 0, cycles),
                                         res |-> Ok(Word(lo, hi),
                                                    IF ReportsWait16(vid)
                                                    THEN system_ticks_to_cpu_cycles(cpu_factor, syswait)
                                                    ELSE 0)]
                  ELSE /\ ret' = [op |-> "read_u16", arg |-> Access(address, 0, cycles),
                                  res |-> Err("MmioError")]
                       /\ UNCHANGED videocards
    ELSE /\ ret' = [op |-> "read_u16", arg |-> Access(address, 0, cycles),
                    res |-> Err("ReadOutOfBoundsError")]
         /\ UNCHANGED videocards

ReadU16 ==
    \E address \in AddrArgs, cycles \in BusCycleArgs :
        /\ ~panicked
        /\ read_u16(address, cycles)
        /\ Quiet
        /\ UNCHANGED <<conventional_size, memory, memory_mask, desc_vec, mmio_map,
                       mmio_map_fast, mmio_data, last_written>>

\* ------------------------------------------------------- bus: writes ---
RawWriteU8_OffByOne(mem, address, data) ==
    IF address < conventional_size - 1 THEN [mem EXCEPT ![address] = data] ELSE mem

\* The raw-memory arm of write_u8: the byte is stored below conventional_size.
RawWriteU8(mem, address, data) ==
    IF address < conventional_size THEN [mem EXCEPT ![address] = data] ELSE mem

\* The raw-memory arm of write_u16, for conventional_size >= 1.
RawWriteU16(mem, address, data) ==
    IF address < conventional_size - 1
    THEN [mem EXCEPT ![address] = Lo(data), ![address + 1] = Hi(data)]
    ELSE IF address < conventional_size
         THEN [mem EXCEPT ![address] = Lo(data)]
         ELSE mem

\* conventional_size - 1 with conventional_size = 0 in a build without
\* overflow checks: the difference wraps to usize::MAX, above every address.
RawWriteU16Wrapped(mem, address, data) ==
    [mem EXCEPT ![address] = Lo(data), ![address + 1] = Hi(data)]

\* history: the byte an effective write_u8 stored, kept until the address is
\* written by anything else.
Forget(addresses) ==
    last_written' = [a \in DOMAIN last_written |->
                        IF a \in addresses THEN NoByte ELSE last_written[a]]

write_u8(address, data, cycles) ==
    LET call == [op |-> "write_u8", arg |-> Access(address, data, cycles)]
    IN  IF InBounds8(address)
        THEN IF ~IsMmioOrRom(memory_mask[address])
             THEN /\ memory' = RawWriteU8(memory, address, data)
                  /\ last_written' = [last_written EXCEPT ![address] =
                                         IF address < conventional_size THEN data ELSE NoByte]
                  /\ ret' = [op |-> call.op, arg |-> call.arg, res |-> Ok(0, DEFAULT_WAIT_STATES)]
                  /\ UNCHANGED <<videocards, panicked>>
             ELSE LET vid == ResolveCard(address)
                  IN  /\ IF vid # NoVid
                         THEN \E syswait \in 0..MaxDevWait :
                                 /\ CardCall(vid, "mmio_write_u8", address, data,
                                             CyclesToTicks(cycles))
                                 /\ ret' = [op |-> call.op, arg |-> call.arg,
                                            res |-> Ok(0, 0), dev_wait |-> syswait]
                         ELSE /\ UNCHANGED videocards
                              /\ ret' = [op |-> call.op, arg |-> call.arg, res |-> Ok(0, 0)]
                      /\ Forget({address})
                      /\ UNCHANGED <<memory, panicked>>
        ELSE /\ ret' = [op |-> call.op, arg |-> call.arg, res |-> Err("ReadOutOfBoundsError")]
             /\ UNCHANGED <<memory, videocards, panicked, last_written>>

WriteU8 ==
    \E address \in AddrArgs, data \in ByteArgs, cycles \in BusCycleArgs :
        /\ Counted
        /\ write_u8(address, data, cycles)
        /\ UNCHANGED <<conventional_size, memory_mask, desc_vec, mmio_map, mmio_map_fast,
                       mmio_data>>

\* Whether the card's 16-bit write reports the wait of its two byte writes
\* (MDA, CGA) or drops it.
ReportsWriteWait16(vid) == vid.vtype \in {"MDA", "CGA"}

write_u16(address, data, cycles) ==
    LET call == [op |-> "write_u16", arg |-> Access(address, data, cycles)]
    IN  IF InBounds16(address)
        THEN IF ~IsMmioOrRom(memory_mask[address])
             THEN /\ Forget({address, address + 1})
                  /\ UNCHANGED videocards
                  /\ IF conventional_size = 0
                     THEN \/ /\ panicked' = TRUE
                             /\ ret' = [op |-> call.op, arg |-> call.arg, res |-> Err("panic")]
                             /\ UNCHANGED memory
                          \/ /\ memory' = RawWriteU16Wrapped(memory, address, data)
                             /\ ret' = [op |-> call.op, arg |-> call.arg,
                                        res |-> Ok(0, DEFAULT_WAIT_STATES)]
                             /\ UNCHANGED panicked
                     ELSE /\ memory' = RawWriteU16(memory, address, data)
                          /\ ret' = [op |-> call.op, arg |-> call.arg,
                                     res |-> Ok(0, DEFAULT_WAIT_STATES)]
                          /\ UNCHANGED panicked
             ELSE LET vid == ResolveCard(address)
                  IN  /\ Forget({address, address + 1})
                      /\ UNCHANGED <<memory, panicked>>
                      /\ IF vid # NoVid
                         THEN \E w1 \in 0..MaxDevWait, w2 \in 0..MaxDevWait :
                                 \* two byte writes; the card keeps the second
                                 /\ CardCall(vid, "mmio_write_u8", address + 1, Hi(data), 0)
                                 /\ ret' = [op |-> call.op, arg |-> call.arg,
                                            res |-> Ok(0, IF ReportsWriteWait16(vid)
                                                          THEN system_ticks_to_cpu_cycles(cpu_factor, w1 + w2)
                                                          ELSE 0)]
                         ELSE /\ ret' = [op |-> call.op, arg |-> call.arg, res |-> Ok(0, 0)]
                              /\ UNCHANGED videocards
        ELSE /\ ret' = [op |-> call.op, arg |-> call.arg, res |-> Err("ReadOutOfBoundsError")]
             /\ UNCHANGED <<memory, videocards, panicked, last_written>>

WriteU16 ==
    \E address \in AddrArgs, data \in WordArgs, cycles \in BusCycleArgs :
        /\ Counted
        /\ write_u16(address, data, cycles)
        /\ UNCHANGED <<conventional_size, memory_mask, desc_vec, mmio_map, mmio_map_fast,
                       mmio_data>>

\* -------------------------------------------------------- bus: flags ---
FlagsInBounds(address) == address < MemLen - 1

get_flags(address) == IF FlagsInBounds(address) THEN memory_mask[address] ELSE 0

set_flags(mask, address, flags) ==
    IF FlagsInBounds(address)
    THEN [mask EXCEPT ![address] = BitOr(mask[address], flags)]
    ELSE mask

clear_flags_Unmasked(mask, address, flags) ==
    IF FlagsInBounds(address)
    THEN [mask EXCEPT ![address] = BitAnd(mask[address], BitNot(flags))]
    ELSE mask

\* clear_flags: the ROM bit is masked out of the request (flags & 0x7F).
clear_flags(mask, address, flags) ==
    IF FlagsInBounds(address)
    THEN [mask EXCEPT ![address] = BitAnd(mask[address], BitNot(BitAnd(flags, 127)))]
    ELSE mask

GetFlags ==
    \E address \in AddrArgs :
        /\ ~panicked
        /\ ret' = [op |-> "get_flags", arg |-> Access(address, 0, 0),
                   res |-> get_flags(address)]
        /\ Quiet
        /\ UNCHANGED <<memvars, last_written>>

SetFlags ==
    \E address \in AddrArgs, flags \in FlagArgs :
        /\ Counted
        /\ memory_mask' = set_flags(memory_mask, address, flags)
        /\ ret' = [op |-> "set_flags", arg |-> Access(address, flags, 0), res |-> <<>>]
        /\ UNCHANGED <<conventional_size, memory, desc_vec, mmio_map, mmio_map_fast,
                       mmio_data, videocards, panicked, last_written>>

ClearFlags ==
    \E address \in AddrArgs, flags \in FlagArgs :
        /\ Counted
        /\ memory_mask' = clear_flags(memory_mask, address, flags)
        /\ ret' = [op |-> "clear_flags", arg |-> Access(address, flags, 0), res |-> <<>>]
        /\ UNCHANGED <<conventional_size, memory, desc_vec, mmio_map, mmio_map_fast,
                       mmio_data, videocards, panicked, last_written>>

\* ----------------------------------------------------- bus: MMIO map ---
Range(desc) == desc.address .. (desc.address + desc.size - 1)

\* The fields register_map works on.
MapState ==
    [memory_mask |-> memory_mask, mmio_map_fast |-> mmio_map_fast, mmio_map |-> mmio_map,
     mmio_data |-> mmio_data, panic |-> FALSE]

\* The size check of register_map: assert_eq!(size % MMIO_MAP_SIZE, 0).
SizeAccepted(desc) == desc.size % MMIO_MAP_SIZE = 0

\* The buckets of the fast map register_map writes for a range: size /
\* MMIO_MAP_SIZE buckets from the bucket of the start address.
MapSegs(desc) ==
    {Bucket(desc.address) + i : i \in 0..((desc.size \div MMIO_MAP_SIZE) - 1)}

\* A registration that leaves a bucket to the device that holds it.
register_map_FirstWins(b, device, desc) ==
    LET data1 == [first_map |-> IF desc.address < b.mmio_data.first_map
                                THEN desc.address ELSE b.mmio_data.first_map,
                  last_map |-> IF desc.address + desc.size > b.mmio_data.last_map
                               THEN desc.address + desc.size ELSE b.mmio_data.last_map]
        mask1 == [a \in DOMAIN b.memory_mask |->
                     IF a \in Range(desc) THEN BitOr(b.memory_mask[a], MEM_MMIO_BIT)
                     ELSE b.memory_mask[a]]
    IN  IF ~SizeAccepted(desc)
        THEN [b EXCEPT !.mmio_data = data1, !.memory_mask = mask1, !.panic = TRUE]
        ELSE [b EXCEPT !.mmio_data = data1, !.memory_mask = mask1,
                       !.mmio_map_fast = [s \in DOMAIN b.mmio_map_fast |->
                                             IF s \in MapSegs(desc)
                                                /\ b.mmio_map_fast[s].kind = "Memory"
                                             THEN device ELSE b.mmio_map_fast[s]],
                       !.mmio_map = Append(b.mmio_map, [desc |-> desc, device |-> device])]

\* register_map, in the order of the source: the first/last bounds, the
\* MMIO flag of every address of the range, then the assertion on the size,
\* and only after it the fast map and the list.
register_map(b, device, desc) ==
    LET data1 == [first_map |-> IF desc.address < b.mmio_data.first_map
                                THEN desc.address ELSE b.mmio_data.first_map,
                  last_map |-> IF desc.address + desc.size > b.mmio_data.last_map
                               THEN desc.address + desc.size ELSE b.mmio_data.last_map]
        mask1 == [a \in DOMAIN b.memory_mask |->
                     IF a \in Range(desc) THEN BitOr(b.memory_mask[a], MEM_MMIO_BIT)
                     ELSE b.memory_mask[a]]
        segs == MapSegs(desc)
    IN  IF ~SizeAccepted(desc)
        THEN [b EXCEPT !.mmio_data = data1, !.memory_mask = mask1, !.panic = TRUE]
        ELSE [b EXCEPT !.mmio_data = data1, !.memory_mask = mask1,
                       !.mmio_map_fast = [s \in DOMAIN b.mmio_map_fast |->
                                             IF s \in segs THEN device ELSE b.mmio_map_fast[s]],
                       !.mmio_map = Append(b.mmio_map, [desc |-> desc, device |-> device])]

SetMapState(b) ==
    /\ memory_mask' = b.memory_mask
    /\ mmio_map_fast' = b.mmio_map_fast
    /\ mmio_map' = b.mmio_map
    /\ mmio_data' = b.mmio_data
    /\ panicked' = b.panic

RegisterMap ==
    \E device \in TagArgs, desc \in RangeArgs :
        /\ Counted
        /\ SetMapState(register_map(MapState, device, desc))
        /\ ret' = [op |-> "register_map", arg |-> [device |-> device, desc |-> desc],
                   res |-> IF SizeAccepted(desc) THEN Ok(0, 0) ELSE Err("panic")]
        /\ UNCHANGED <<conventional_size, memory, desc_vec, videocards, last_written>>

\* ------------------------------------------------- bus: memory images ---
copy_from(src, location, cycle_cost, read_only) ==
    LET src_size == Len(src)
        span == location .. (location + src_size - 1)
        access_bit == IF read_only THEN MEM_ROM_BIT ELSE 0
        call == [op |-> "copy_from",
                 arg |-> [src |-> src, location |-> location, read_only |-> read_only]]
    IN  IF location + src_size > MemLen
        THEN /\ ret' = [op |-> call.op, arg |-> call.arg, res |-> Err("false")]
             /\ UNCHANGED <<memory, memory_mask, desc_vec, last_written>>
        ELSE /\ memory' = [a \in DOMAIN memory |->
                              IF a \in span THEN src[a - location + 1] ELSE memory[a]]
             /\ memory_mask' = [a \in DOMAIN memory_mask |->
                                   IF a \in span THEN BitOr(memory_mask[a], access_bit)
                                   ELSE memory_mask[a]]
             /\ desc_vec' = Append(desc_vec,
                                   MemRangeDescriptor(location, src_size, cycle_cost, read_only))
             /\ Forget(span)
             /\ ret' = [op |-> call.op, arg |-> call.arg, res |-> Ok(0, 0)]

CopyFrom ==
    \E src \in SrcArgs, location \in {1, 2, ADDRESS_SPACE - 1}, read_only \in BOOLEAN :
        /\ Counted
        /\ copy_from(src, location, 0, read_only)
        /\ UNCHANGED <<conventional_size, mmio_map, mmio_map_fast, mmio_data, videocards,
                       panicked>>

CheckpointArgs == {<<1>>, <<ADDRESS_SPACE - 1, ADDRESS_SPACE + 1>>}

\* checkpoint.addr & 0xFFFFF: the address wrapped into the address space.
WrapAddress(addr) == addr % ADDRESS_SPACE

install_checkpoints(mask, checkpoints) ==
    LET hit == {WrapAddress(checkpoints[i]) : i \in DOMAIN checkpoints}
    IN  [a \in DOMAIN mask |-> IF a \in hit THEN BitOr(mask[a], MEM_CP_BIT) ELSE mask[a]]

clear_checkpoints(mask) ==
    [a \in DOMAIN mask |-> BitAnd(mask[a], BitNot(MEM_CP_BIT))]

InstallCheckpoints ==
    \E checkpoints \in CheckpointArgs :
        /\ Counted
        /\ memory_mask' = install_checkpoints(memory_mask, checkpoints)
        /\ ret' = [op |-> "install_checkpoints", arg |-> checkpoints, res |-> <<>>]
        /\ UNCHANGED <<conventional_size, memory, desc_vec, mmio_map, mmio_map_fast,
                       mmio_data, videocards, panicked, last_written>>

ClearCheckpoints ==
    /\ Counted
    /\ memory_mask' = clear_checkpoints(memory_mask)
    /\ ret' = [op |-> "clear_checkpoints", arg |-> <<>>, res |-> <<>>]
    /\ UNCHANGED <<conventional_size, memory, desc_vec, mmio_map, mmio_map_fast,
                   mmio_data, videocards, panicked, last_written>>

\* A clear that drops the return-address flags and keeps the bytes.
clear_FlagsOnly ==
    /\ memory_mask' = [a \in DOMAIN memory_mask |-> BitAnd(memory_mask[a], BitNot(MEM_RET_BIT))]
    /\ UNCHANGED <<memory, last_written>>

\* clear: the return-address flag of every address, then every byte.
clear ==
    /\ memory_mask' = [a \in DOMAIN memory_mask |-> BitAnd(memory_mask[a], BitNot(MEM_RET_BIT))]
    /\ memory' = [a \in DOMAIN memory |-> 0]
    /\ Forget(DOMAIN memory)

Clear ==
    /\ Counted
    /\ clear
    /\ ret' = [op |-> "clear", arg |-> <<>>, res |-> <<>>]
    /\ UNCHANGED <<conventional_size, desc_vec, mmio_map, mmio_map_fast, mmio_data,
                   videocards, panicked>>

Reset ==
    /\ Counted
    /\ desc_vec' = <<>>
    /\ clear
    /\ ret' = [op |-> "reset", arg |-> <<>>, res |-> <<>>]
    /\ UNCHANGED <<conventional_size, mmio_map, mmio_map_fast, mmio_data, videocards, panicked>>

SetConventionalSize ==
    \E size \in ConvArgs :
        /\ Counted
        /\ conventional_size' = size
        /\ ret' = [op |-> "set_conventional_size", arg |-> size, res |-> <<>>]
        /\ UNCHANGED <<memory, memory_mask, desc_vec, mmio_map, mmio_map_fast, mmio_data,
                       videocards, panicked, last_written>>

\* ---------------------------------------------------- bus: devices ---
\* A card as the bus sees it: the last memory-mapped call it received.
NewCard == [last |-> [method |-> "none", address |-> 0, data |-> 0, ticks |-> 0],
            delivered |-> 0]

\* Machine configurations: the conventional memory size, the video cards
\* and the optional devices.
MachineConfiguration(video, fdc, hdc, serial, serial_mouse) ==
    [conventional_memory |-> ADDRESS_SPACE, video |-> video, keyboard |-> TRUE,
     fdc |-> fdc, hdc |-> hdc, serial |-> serial, serial_mouse |-> serial_mouse]
ConfigBase == MachineConfiguration(<<"CGA">>, FALSE, FALSE, FALSE, FALSE)
ConfigFull == MachineConfiguration(<<"CGA">>, TRUE, TRUE, TRUE, TRUE)
ConfigArgs == {ConfigBase}
\* A configuration whose memory size normalize_conventional_memory rejects,
\* and one with a second card of a type this build has no code for (the
\* ega and vga features are off).
ConfigRejected == [ConfigBase EXCEPT !.conventional_memory = 0 - 1]
ConfigEga == MachineConfiguration(<<"CGA", "EGA">>, FALSE, FALSE, FALSE, FALSE)
CompiledCards == {"CGA"}
MachineArgs == {<<MachineXT, ConfigBase>>, <<MachineAT, ConfigBase>>, <<MachineXT, ConfigFull>>}

\* The ports each device advertises (port_list), one port standing for the
\* device's list, and a port no device advertises.
PPI_PORT == 96
PIT_PORT == 64
DMA_PORT == 0
PIC_PORT == 32
FDC_PORT == 1010
HDC_PORT == 800
SERIAL_PORT == 1016
CGA_PORT == 980
UNMAPPED_PORT == 632
IoVideo(vid) == [kind |-> "Video", vid |-> vid]
IoTag(kind) == [kind |-> kind, vid |-> NoVid]

\* io_map.extend(port_list.map(|p| (p, tag)))
IoExtend(io, port, tag) ==
    [p \in DOMAIN io \cup {port} |-> IF p = port THEN tag ELSE io[p]]

\* The devices as their constructors leave them.
NewKeyboard == Device([queue |-> <<>>])
NewPpi == Device([kb_enabled |-> TRUE, kb_byte |-> 0])
\* Channel 1 of the timer: whether it counts, its reload value, whether it
\* changed since the scheduler last inspected it, and (history) whether it
\* was counting at that inspection.
NewChannel == [counting |-> FALSE, reload |-> 0, dirty |-> FALSE, was_counting |-> FALSE]
NewPit == Device([ch1 |-> NewChannel])
NewPic == Device([pulses |-> 0])
NewOther == Device(<<>>)

\* install_devices up to the video cards: the slots and ports of the
\* devices the descriptor and the configuration ask for.
InstallSlots(desc, config) ==
    [n \in SlotNames |->
        CASE n = "ppi" -> IF desc.have_ppi THEN NewPpi ELSE slots[n]
          [] n = "pit" -> NewPit
          [] n = "dma1" -> NewOther
          [] n = "pic1" -> NewPic
          [] n = "keyboard" -> IF config.keyboard THEN NewKeyboard ELSE slots[n]
          [] n = "fdc" -> IF config.fdc THEN NewOther ELSE slots[n]
          [] n = "hdc" -> IF config.hdc THEN NewOther ELSE slots[n]
          [] n = "serial" -> IF config.serial THEN NewOther ELSE slots[n]
          [] n = "mouse" -> IF config.serial_mouse /\ (config.serial \/ slots["serial"].present)
                            THEN NewOther ELSE slots[n]
          [] OTHER -> slots[n]]

InstallPorts(desc, config) ==
    LET io1 == IF desc.have_ppi THEN IoExtend(io_map, PPI_PORT, IoTag("Ppi")) ELSE io_map
        io2 == IoExtend(io1, PIT_PORT, IoTag("Pit"))
        io3 == IoExtend(io2, DMA_PORT, IoTag("DmaPrimary"))
        io4 == IoExtend(io3, PIC_PORT, IoTag("PicPrimary"))
        io5 == IF config.fdc THEN IoExtend(io4, FDC_PORT, IoTag("FloppyController")) ELSE io4
        io6 == IF config.hdc THEN IoExtend(io5, HDC_PORT, IoTag("HardDiskController")) ELSE io5
    IN  IF config.serial THEN IoExtend(io6, SERIAL_PORT, IoTag("Serial")) ELSE io6

\* install_devices, the video cards: per card its ports, its aperture and
\* its slot.  A register_map that panics ends the installation there.
RECURSIVE InstallVideo(_, _, _, _, _)
InstallVideo(b, cards, io, video, i) ==
    IF i > Len(video) THEN [b |-> b, cards |-> cards, io |-> io]
    ELSE IF video[i] \notin CompiledCards
    THEN [b |-> [b EXCEPT !.panic = TRUE], cards |-> cards, io |-> io]
    ELSE LET video_id == Vid(i - 1, video[i])
             io1 == IoExtend(io, CGA_PORT, IoVideo(video_id))
             b1 == register_map(b, TagVideo(video_id),
                                MemRangeDescriptor(CGA_MEM_ADDRESS, CGA_MEM_APERTURE, 0, FALSE))
             cards1 == [v \in DOMAIN cards \cup {video_id} |->
                           IF v = video_id THEN NewCard ELSE cards[v]]
         IN  IF b1.panic THEN [b |-> b1, cards |-> cards, io |-> io1]
             ELSE InstallVideo(b1, cards1, io1, video, i + 1)

\* normalize_conventional_memory(machine_config)?: the size to install, or
\* the error install_devices returns at once.
normalize_conventional_memory(machine_config) ==
    IF machine_config.conventional_memory \in 0..ADDRESS_SPACE
    THEN Ok(machine_config.conventional_memory, 0) ELSE Err("configuration")

install_devices(desc, machine_config) ==
    LET conventional_memory == normalize_conventional_memory(machine_config)
        done == InstallVideo(MapState, videocards, InstallPorts(desc, machine_config),
                             machine_config.video, 1)
    IN  /\ CountedCall
        /\ IF ~conventional_memory.ok
           THEN /\ ret' = [op |-> "install_devices", arg |-> machine_config,
                           res |-> conventional_memory]
                /\ UNCHANGED <<memvars, panicked, last_written, accumvars, machine_desc,
                               io_map, slots, nruns, nio>>
           ELSE /\ conventional_size' = conventional_memory.val
                /\ slots' = InstallSlots(desc, machine_config)
                /\ io_map' = done.io
                /\ SetMapState(done.b)
                /\ videocards' = done.cards
                /\ machine_desc' = IF done.b.panic THEN machine_desc ELSE desc
                /\ ret' = [op |-> "install_devices", arg |-> machine_config,
                           res |-> IF done.b.panic THEN Err("panic") ELSE Ok(0, 0)]
                /\ UNCHANGED <<memory, desc_vec, last_written, accumvars, nruns, nio>>

\* The installation of the base machine.
InstallDevices ==
    \E machine_config \in ConfigArgs : install_devices(MachineXT, machine_config)

\* The installation of each machine of MachineArgs.
InstallMachine ==
    \E machine \in MachineArgs : install_devices(machine[1], machine[2])

\* The installation of a machine with one or with two CGA cards.
ConfigTwoCga == MachineConfiguration(<<"CGA", "CGA">>, FALSE, FALSE, FALSE, FALSE)
InstallCards ==
    /\ io_map = <<>>
    /\ \E machine_config \in {ConfigBase, ConfigTwoCga} :
          install_devices(MachineXT, machine_config)

\* An installation that may fail.
InstallArgs == MachineArgs \cup {<<MachineXT, ConfigRejected>>, <<MachineXT, ConfigEga>>}
InstallAny ==
    \E machine \in InstallArgs : install_devices(machine[1], machine[2])

\* The installation as the machine performs it: once, on a freshly built bus.
FirstInstall ==
    /\ io_map = <<>>
    /\ InstallMachine

\* --------------------------------------------------------- bus: I/O ---
NO_IO_BYTE == 255
PortArgs == {PIT_PORT, PPI_PORT, PIC_PORT, CGA_PORT, UNMAPPED_PORT}
IoByteArgs == {0, 18}
IoCycleArgs == {3}

\* The slot an I/O tag is dispatched to.
SlotOf(kind) ==
    CASE kind = "Ppi" -> "ppi"
      [] kind = "Pit" -> "pit"
      [] kind = "DmaPrimary" -> "dma1"
      [] kind = "DmaSecondary" -> "dma2"
      [] kind = "PicPrimary" -> "pic1"
      [] kind = "PicSecondary" -> "pic2"
      [] kind = "FloppyController" -> "fdc"
      [] kind = "HardDiskController" -> "hdc"
      [] kind = "Serial" -> "serial"

\* The devices io_read_u8 unwraps; the others return NO_IO_BYTE when absent.
ReadUnwraps == {"Pit", "DmaPrimary", "PicPrimary"}
\* The devices that are handed the elapsed system ticks; the others get nul_delta.
IoTicks(kind, sys_ticks) == IF kind \in {"Pit", "Video"} THEN sys_ticks ELSE 0

\* The conversion written out in io_read_u8 and io_write_u8.
IoSysTicks(factor, cycles) ==
    IF factor.kind = "Divisor" THEN factor.n * cycles ELSE cycles \div factor.n

\* One call of a device's handler inside a bus call: the device (its slot,
\* or "video" for a card), whether the handler is handed a mutable reference
\* to the bus, and the slots that are empty (their device taken out) while
\* it runs.
Handler(dev, bus, out) == [dev |-> dev, bus |-> bus, out |-> out]

\* self.<slot> = Some(device): the device is put back after its handler.
Restored_Dropped(sl, name, dev) == [sl EXCEPT ![name] = Absent]
Restored(sl, name, dev) == [sl EXCEPT ![name] = dev]

\* A device's own reaction to a port write: the PPI's keyboard enable and
\* the timer's channels follow the byte written; every device records the call.
DeviceWritten(name, dev, call) ==
    LET st1 == CASE name = "ppi" -> {[dev.st EXCEPT !.kb_enabled = (call.data # 0)]}
                 [] name = "pit" ->
                      {[dev.st EXCEPT !.ch1 = [counting |-> counting, reload |-> call.data,
                                               dirty |-> dev.st.ch1.dirty
                                                         \/ counting # dev.st.ch1.counting
                                                         \/ call.data # dev.st.ch1.reload,
                                               was_counting |-> dev.st.ch1.was_counting]] :
                          counting \in BOOLEAN}
                 [] OTHER -> {dev.st}
    IN  {[dev EXCEPT !.last = call, !.st = st] : st \in st1}

\* A port read that answers 0 where no device is mapped.
io_read_u8_NoOpenBus(port, cycles) ==
    /\ ret' = [op |-> "io_read_u8", arg |-> [port |-> port, cycles |-> cycles], res |-> 0]
    /\ UNCHANGED <<slots, videocards, panicked>>

io_read_u8(port, cycles) ==
    LET sys_ticks == IoSysTicks(cpu_factor, cycles)
        arg == [port |-> port, cycles |-> cycles]
        nothing == /\ ret' = [op |-> "io_read_u8", arg |-> arg, res |-> NO_IO_BYTE]
                   /\ UNCHANGED <<slots, videocards, panicked>>
    IN  IF port \notin DOMAIN io_map THEN nothing
        ELSE LET tag == io_map[port]
                 call == [method |-> "read_u8", port |-> port, data |-> 0,
                          ticks |-> IoTicks(tag.kind, sys_ticks)]
             IN  IF tag.kind = "Video"
                 THEN IF tag.vid \in DOMAIN videocards
                      THEN \E data \in DevBytes :
                              /\ videocards' = [videocards EXCEPT ![tag.vid].last =
                                                   [method |-> "read_u8", address |-> port,
                                                    data |-> 0, ticks |-> sys_ticks]]
                              /\ ret' = [op |-> "io_read_u8", arg |-> arg, res |-> data]
                              /\ UNCHANGED <<slots, panicked>>
                      ELSE nothing
                 ELSE IF slots[SlotOf(tag.kind)].present
                      THEN \E data \in DevBytes :
                              /\ slots' = [slots EXCEPT ![SlotOf(tag.kind)].last = call]
                              /\ ret' = [op |-> "io_read_u8", arg |-> arg, res |-> data]
                              /\ UNCHANGED <<videocards, panicked>>
                      ELSE IF tag.kind \in ReadUnwraps
                           THEN /\ panicked' = TRUE
                                /\ ret' = [op |-> "io_read_u8", arg |-> arg, res |-> Err("panic")]
                                /\ UNCHANGED <<slots, videocards>>
                           ELSE nothing

io_write_u8(port, data, cycles) ==
    LET sys_ticks == IoSysTicks(cpu_factor, cycles)
        arg == [port |-> port, data |-> data, cycles |-> cycles]
        calls == IF port \notin DOMAIN io_map THEN <<>>
                 ELSE LET tag == io_map[port]
                      IN  IF tag.kind = "Video"
                          THEN IF tag.vid \in DOMAIN videocards
                               THEN <<Handler("video", FALSE, {})>> ELSE <<>>
                          ELSE IF ~slots[SlotOf(tag.kind)].present THEN <<>>
                          ELSE IF tag.kind = "Serial"
                          THEN <<Handler("serial", FALSE, {})>>
                          ELSE <<Handler(SlotOf(tag.kind), TRUE, {SlotOf(tag.kind)})>>
    IN  /\ ret' = [op |-> "io_write_u8", arg |-> arg, res |-> <<>>, calls |-> calls]
        /\ IF port \notin DOMAIN io_map THEN UNCHANGED <<slots, videocards>>
           ELSE LET tag == io_map[port]
                    call == [method |-> "write_u8", port |-> port, data |-> data,
                             ticks |-> IoTicks(tag.kind, sys_ticks)]
                IN  IF tag.kind = "Video"
                    THEN /\ IF tag.vid \in DOMAIN videocards
                            THEN videocards' = [videocards EXCEPT ![tag.vid].last =
                                                   [method |-> "write_u8", address |-> port,
                                                    data |-> data, ticks |-> sys_ticks]]
                            ELSE UNCHANGED videocards
                         /\ UNCHANGED slots
                    ELSE /\ IF slots[SlotOf(tag.kind)].present
                            THEN \E dev \in DeviceWritten(SlotOf(tag.kind),
                                                          slots[SlotOf(tag.kind)], call) :
                                    slots' = Restored(slots, SlotOf(tag.kind), dev)
                            ELSE UNCHANGED slots
                         /\ UNCHANGED videocards

\* The fields an I/O call leaves alone.
IoFrame ==
    /\ ~panicked
    /\ nio < MaxIo
    /\ nio' = nio + 1
    /\ UNCHANGED <<timingvars, table_arg, nops, last_written, conventional_size, memory,
                   memory_mask, desc_vec, mmio_map, mmio_map_fast, mmio_data,
                   machine_desc, io_map, accumvars, nruns, mach>>

IoReadU8 ==
    \E port \in PortArgs, cycles \in IoCycleArgs :
        /\ IoFrame
        /\ io_read_u8(port, cycles)

IoWriteU8 ==
    \E port \in PortArgs, data \in IoByteArgs, cycles \in IoCycleArgs :
        /\ IoFrame
        /\ io_write_u8(port, data, cycles)
        /\ UNCHANGED panicked

\* How io_read_u8 answers for `port` with the slots `sl`: no device behind
\* the port ("none"), a device or card that answers ("device"), or the
\* unwrap of an empty slot ("panic").
IoReadOutcome(sl, port) ==
    IF port \notin DOMAIN io_map THEN "none"
    ELSE LET tag == io_map[port]
         IN  IF tag.kind = "Video"
             THEN IF tag.vid \in DOMAIN videocards THEN "device" ELSE "none"
             ELSE IF sl[SlotOf(tag.kind)].present THEN "device"
             ELSE IF tag.kind \in ReadUnwraps THEN "panic"
             ELSE "none"

\* io_write_u8 to a device that is handed the bus, whose write_u8 reads a
\* port through the bus before it returns: the device is out of its slot
\* while the read is served.  The call record is that of the read, with the
\* handler it was made from.
IoWriteReading ==
    \E port \in {PIT_PORT, PPI_PORT, PIC_PORT}, inner \in PortArgs,
       data \in IoByteArgs, cycles \in IoCycleArgs :
        /\ IoFrame
        /\ port \in DOMAIN io_map
        /\ slots[SlotOf(io_map[port].kind)].present
        /\ LET name == SlotOf(io_map[port].kind)
               sys_ticks == IoSysTicks(cpu_factor, cycles)
               taken == [slots EXCEPT ![name] = Absent]
               outcome == IoReadOutcome(taken, inner)
               arg == [port |-> inner, cycles |-> cycles]
               within == Handler(name, TRUE, {name})
               wcall == [method |-> "write_u8", port |-> port, data |-> data,
                         ticks |-> IoTicks(io_map[port].kind, sys_ticks)]
               rcall == [method |-> "read_u8", port |-> inner, data |-> 0,
                         ticks |-> IF outcome = "device"
                                   THEN IoTicks(io_map[inner].kind, sys_ticks) ELSE 0]
               read == IF outcome = "device" /\ io_map[inner].kind # "Video"
                       THEN [taken EXCEPT ![SlotOf(io_map[inner].kind)].last = rcall]
                       ELSE taken
           IN  IF outcome = "panic"
               THEN /\ panicked' = TRUE
                    /\ slots' = taken
                    /\ ret' = [op |-> "io_read_u8", arg |-> arg, res |-> Err("panic"),
                               within |-> within]
                    /\ UNCHANGED videocards
               ELSE /\ \E dev \in DeviceWritten(name, slots[name], wcall) :
                          slots' = Restored(read, name, dev)
                    /\ \E byte \in (IF outcome = "device" THEN DevBytes ELSE {NO_IO_BYTE}) :
                          ret' = [op |-> "io_read_u8", arg |-> arg, res |-> byte,
                                  within |-> within]
                    /\ videocards' = IF outcome = "device" /\ io_map[inner].kind = "Video"
                                     THEN [videocards EXCEPT ![io_map[inner].vid].last =
                                              [method |-> "read_u8", address |-> inner,
                                               data |-> 0, ticks |-> sys_ticks]]
                                     ELSE videocards
                    /\ UNCHANGED panicked

\* The timer's port is written: channel 1 is programmed.
ProgramTimer ==
    \E data \in IoByteArgs, cycles \in IoCycleArgs :
        /\ IoFrame
        /\ io_write_u8(PIT_PORT, data, cycles)
        /\ UNCHANGED panicked

\* The PPI's port is written: the keyboard is enabled or disabled.
WritePpi ==
    \E data \in IoByteArgs, cycles \in IoCycleArgs :
        /\ IoFrame
        /\ io_write_u8(PPI_PORT, data, cycles)
        /\ UNCHANGED panicked

\* ------------------------------------------------ bus: run_devices ---
\* Elapsed time of a slice, a key event, and what the timer answers when
\* the scheduler inspects it.
UsArgs == {1000, 4500}
SysTickArgs == {4, 9}
NoKey == [keycode |-> 0, pressed |-> FALSE, none |-> TRUE]
KeyEvent(keycode, pressed) == [keycode |-> keycode, pressed |-> pressed, none |-> FALSE]
KeyArgs == {NoKey, KeyEvent(30, TRUE), KeyEvent(30, FALSE)}
ElementArgs == {0, 18, 19}
Ch0ReloadArgs == {0, 5117, 5162, 19912}
TimerAccumArgs == {5}

DramRefreshUpdate(reload, element, ticks) ==
    [event |-> "DramRefreshUpdate", reload |-> reload, element |-> element, ticks |-> ticks,
     enable |-> FALSE]
DramRefreshEnable(enable) ==
    [event |-> "DramRefreshEnable", reload |-> 0, element |-> 0, ticks |-> 0,
     enable |-> enable]
NoEvent == [event |-> "None", reload |-> 0, element |-> 0, ticks |-> 0, enable |-> FALSE]

\* A device is advanced: it records the call.
Ran(dev, ticks) == [dev EXCEPT !.last = [method |-> "run", port |-> 0, data |-> 0,
                                         ticks |-> ticks]]
Step(name, arg) == [dev |-> name, arg |-> arg]

\* A drain that pulses the interrupt line whatever the PPI reports.
DrainScancode_PulseAlways(k) ==
    IF k.slots["keyboard"].st.queue = <<>> THEN k
    ELSE LET kb_byte == Head(k.slots["keyboard"].st.queue)
             sl1 == [k.slots EXCEPT !["keyboard"].st.queue = Tail(@)]
             sl2 == IF sl1["ppi"].present
                    THEN [sl1 EXCEPT !["ppi"].st.kb_byte = kb_byte]
                    ELSE sl1
             pulse == sl1["ppi"].present /\ sl1["pic1"].present
             sl3 == IF pulse THEN [sl2 EXCEPT !["pic1"].st.pulses = @ + 1] ELSE sl2
         IN  [slots |-> sl3,
              log |-> k.log \o <<Step("recv_scancode", kb_byte)>>
                      \o (IF sl1["ppi"].present THEN <<Step("send_keyboard", kb_byte)>> ELSE <<>>)
                      \o (IF pulse THEN <<Step("pulse_interrupt", 1)>> ELSE <<>>)]

\* keyboard.recv_scancode and what the scheduler does with the byte: the
\* PPI, if present, latches it and, if it reports the keyboard enabled,
\* interrupt line 1 of the primary controller is pulsed.
DrainScancode(k) ==
    IF k.slots["keyboard"].st.queue = <<>> THEN k
    ELSE LET kb_byte == Head(k.slots["keyboard"].st.queue)
             sl1 == [k.slots EXCEPT !["keyboard"].st.queue = Tail(@)]
             sl2 == IF sl1["ppi"].present
                    THEN [sl1 EXCEPT !["ppi"].st.kb_byte = kb_byte]
                    ELSE sl1
             pulse == sl1["ppi"].present /\ sl1["ppi"].st.kb_enabled /\ sl1["pic1"].present
             sl3 == IF pulse THEN [sl2 EXCEPT !["pic1"].st.pulses = @ + 1] ELSE sl2
         IN  [slots |-> sl3,
              log |-> k.log \o <<Step("recv_scancode", kb_byte)>>
                      \o (IF sl1["ppi"].present THEN <<Step("send_keyboard", kb_byte)>> ELSE <<>>)
                      \o (IF pulse THEN <<Step("pulse_interrupt", 1)>> ELSE <<>>)]

\* The scancode a key event puts into the keyboard.
Scancode(kb_event) == IF kb_event.pressed THEN kb_event.keycode ELSE kb_event.keycode + 128

\* The keyboard part of run_devices: the key event, then the timed update.
KeyboardPart(us, kb_event, typematic) ==
    IF ~slots["keyboard"].present
    THEN [slots |-> slots, log |-> <<>>, accum |-> kb_us_accum]
    ELSE LET k0 == [slots |-> slots, log |-> <<>>]
             k1 == IF kb_event.none THEN k0
                   ELSE DrainScancode(
                            [slots |-> [slots EXCEPT !["keyboard"].st.queue =
                                                         Append(@, Scancode(kb_event))],
                             log |-> <<Step("key_event", Scancode(kb_event))>>])
             accum == kb_us_accum + us
             k2 == IF accum > KB_UPDATE_RATE
                   THEN DrainScancode(
                            [slots |-> [k1.slots EXCEPT
                                          !["keyboard"] = Ran(@, KB_UPDATE_RATE),
                                          !["keyboard"].st.queue =
                                              IF typematic THEN Append(@, 30) ELSE @],
                             log |-> k1.log \o <<Step("keyboard", KB_UPDATE_RATE)>>])
                   ELSE k1
         IN  [slots |-> k2.slots, log |-> k2.log,
              accum |-> IF accum > KB_UPDATE_RATE THEN accum - KB_UPDATE_RATE ELSE accum]

\* A refresh event that ignores the range of the counting element.
RefreshEvent_Unguarded(dirty, counting, ticked, reload, element, timer_accum) ==
    IF counting /\ dirty
    THEN [event |-> IF element = 0 /\ ~ticked THEN DramRefreshUpdate(reload, 0, 0)
                    ELSE DramRefreshUpdate(reload, element, timer_accum),
          dma_counter |-> reload, refresh_active |-> TRUE]
    ELSE IF ~counting /\ refresh_active
         THEN [event |-> DramRefreshEnable(FALSE), dma_counter |-> dma_counter,
               refresh_active |-> FALSE]
         ELSE [event |-> NoEvent, dma_counter |-> dma_counter,
               refresh_active |-> refresh_active]

\* A refresh event that disables refresh whenever channel 1 is not counting.
RefreshEvent_AlwaysDisable(dirty, counting, ticked, reload, element, timer_accum) ==
    IF counting /\ dirty
    THEN IF element <= reload
         THEN [event |-> IF element = 0 /\ ~ticked THEN DramRefreshUpdate(reload, 0, 0)
                         ELSE DramRefreshUpdate(reload, element, timer_accum),
               dma_counter |-> reload, refresh_active |-> TRUE]
         ELSE [event |-> NoEvent, dma_counter |-> dma_counter,
               refresh_active |-> refresh_active]
    ELSE IF ~counting
         THEN [event |-> DramRefreshEnable(FALSE), dma_counter |-> dma_counter,
               refresh_active |-> FALSE]
         ELSE [event |-> NoEvent, dma_counter |-> dma_counter,
               refresh_active |-> refresh_active]

\* A refresh event that always carries the element and the accumulator.
RefreshEvent_FullPayload(dirty, counting, ticked, reload, element, timer_accum) ==
    IF counting /\ dirty
    THEN IF element <= reload
         THEN [event |-> DramRefreshUpdate(reload, element, timer_accum),
               dma_counter |-> reload, refresh_active |-> TRUE]
         ELSE [event |-> NoEvent, dma_counter |-> dma_counter,
               refresh_active |-> refresh_active]
    ELSE IF ~counting /\ refresh_active
         THEN [event |-> DramRefreshEnable(FALSE), dma_counter |-> dma_counter,
               refresh_active |-> FALSE]
         ELSE [event |-> NoEvent, dma_counter |-> dma_counter,
               refresh_active |-> refresh_active]

\* A refresh disable that leaves refresh_active set.
RefreshEvent_KeepsActive(dirty, counting, ticked, reload, element, timer_accum) ==
    IF counting /\ dirty
    THEN IF element <= reload
         THEN [event |-> IF element = 0 /\ ~ticked THEN DramRefreshUpdate(reload, 0, 0)
                         ELSE DramRefreshUpdate(reload, element, timer_accum),
               dma_counter |-> reload, refresh_active |-> TRUE]
         ELSE [event |-> NoEvent, dma_counter |-> dma_counter,
               refresh_active |-> refresh_active]
    ELSE IF ~counting /\ refresh_active
         THEN [event |-> DramRefreshEnable(FALSE), dma_counter |-> dma_counter,
               refresh_active |-> TRUE]
         ELSE [event |-> NoEvent, dma_counter |-> dma_counter,
               refresh_active |-> refresh_active]

\* The refresh event of run_devices, from what channel 1 reports.
RefreshEvent(dirty, counting, ticked, reload, element, timer_accum) ==
    IF counting /\ dirty
    THEN IF element <= reload
         THEN [event |-> IF element = 0 /\ ~ticked THEN DramRefreshUpdate(reload, 0, 0)
                         ELSE DramRefreshUpdate(reload, element, timer_accum),
               dma_counter |-> reload, refresh_active |-> TRUE]
         ELSE [event |-> NoEvent, dma_counter |-> dma_counter,
               refresh_active |-> refresh_active]
    ELSE IF ~counting /\ refresh_active
         THEN [event |-> DramRefreshEnable(FALSE), dma_counter |-> dma_counter,
               refresh_active |-> FALSE]
         ELSE [event |-> NoEvent, dma_counter |-> dma_counter,
               refresh_active |-> refresh_active]

\* The video part of run_devices over the cards in iteration order.
RECURSIVE RunVideo(_, _, _, _, _, _)
RunVideo(v, order, i, us, sys_ticks, pit_reload_value) ==
    IF i > Len(order) THEN v
    ELSE LET vid == order[i]
         IN  IF vid.vtype = "CGA"
             THEN LET accum == v.accum + sys_ticks
                  IN  IF accum > 8
                      THEN RunVideo(
                             [cards |-> [v.cards EXCEPT ![vid].last =
                                            [method |-> "run", address |-> 0, data |-> 0,
                                             ticks |-> accum],
                                         ![vid].delivered = @ + accum],
                              accum |-> 0,
                              t1 |-> v.t1 /\ ~(pit_reload_value = 19912),
                              t2 |-> v.t2 /\ ~(~v.t1 /\ pit_reload_value = 19912),
                              log |-> v.log \o <<Step(vid, accum)>>],
                             order, i + 1, us, sys_ticks, pit_reload_value)
                      ELSE RunVideo([v EXCEPT !.accum = accum],
                                    order, i + 1, us, sys_ticks, pit_reload_value)
             ELSE RunVideo(
                    [v EXCEPT !.cards[vid].last = [method |-> "run", address |-> 0,
                                                   data |-> 0, ticks |-> us],
                              !.log = @ \o <<Step(vid, us)>>],
                    order, i + 1, us, sys_ticks, pit_reload_value)

\* The orders in which a HashMap may hand out the installed cards.
CardOrders ==
    {order \in [1..Cardinality(DOMAIN videocards) -> DOMAIN videocards] :
        \A i, j \in DOMAIN order : i # j => order[i] # order[j]}

\* What the timer reports when the scheduler inspects it after its advance:
\* whether the advance changed channel 1, whether the channel ticked, its
\* counting element, the timer accumulator and the reload value of channel 0.
TimerReport(ran_dirty, ticked, element, timer_accum, ch0_reload) ==
    [ran_dirty |-> ran_dirty, ticked |-> ticked, element |-> element,
     timer_accum |-> timer_accum, ch0_reload |-> ch0_reload]
QuietTimer == TimerReport(FALSE, FALSE, 0, 0, 0)

\* A scheduler that advances the DMA controller before the storage controllers.
DeviceCalls_DmaBeforeStorage(k) ==
    LET present(n) == k.slots[n].present
    IN  (IF \E i \in DOMAIN k.log : k.log[i].dev = "keyboard"
         THEN <<Handler("keyboard", FALSE, {})>> ELSE <<>>)
        \o <<Handler("pic1", FALSE, {})>>
        \o (IF present("ppi") THEN <<Handler("ppi", FALSE, {"pit"})>> ELSE <<>>)
        \o <<Handler("pit", TRUE, {"pit"})>>
        \o <<Handler("dma1", TRUE, {"dma1"})>>
        \o (IF present("fdc") THEN <<Handler("fdc", TRUE, {"fdc"})>> ELSE <<>>)
        \o (IF present("hdc") THEN <<Handler("hdc", TRUE, {"hdc"})>> ELSE <<>>)
        \o (IF present("serial") THEN <<Handler("serial", FALSE, {})>> ELSE <<>>)
        \o (IF present("serial") /\ present("mouse")
            THEN <<Handler("mouse", FALSE, {})>> ELSE <<>>)

\* The handlers run_devices calls before the video cards, in the order of
\* the source, on the slots the keyboard part left: keyboard.run if the
\* timed update was due, then the PIC, the PPI, the timer, the storage
\* controllers with the DMA controller in hand, the DMA controller, the
\* serial controller and the mouse.
DeviceCalls(k) ==
    LET present(n) == k.slots[n].present
    IN  (IF \E i \in DOMAIN k.log : k.log[i].dev = "keyboard"
         THEN <<Handler("keyboard", FALSE, {})>> ELSE <<>>)
        \o <<Handler("pic1", FALSE, {})>>
        \o (IF present("ppi") THEN <<Handler("ppi", FALSE, {"pit"})>> ELSE <<>>)
        \o <<Handler("pit", TRUE, {"pit"})>>
        \o (IF present("fdc") THEN <<Handler("fdc", TRUE, {"dma1", "fdc"})>> ELSE <<>>)
        \o (IF present("hdc") THEN <<Handler("hdc", TRUE, {"dma1", "hdc"})>> ELSE <<>>)
        \o <<Handler("dma1", TRUE, {"dma1"})>>
        \o (IF present("serial") THEN <<Handler("serial", FALSE, {})>> ELSE <<>>)
        \o (IF present("serial") /\ present("mouse")
            THEN <<Handler("mouse", FALSE, {})>> ELSE <<>>)

\* run_devices: the whole invocation.  `typematic` is whether the timed
\* keyboard update produced a scancode, `timer` what the timer reports and
\* `order` the order in which the video cards are visited.
\* The timer's advance keeps the scheduled ticks pending.
TimerAdvance_KeepsPending(crystal, us, sys_ticks, pending) ==
    [ticks |-> IF crystal THEN us ELSE sys_ticks + pending, pending |-> pending]

\* The time the timer is advanced by and the scheduled ticks left pending:
\* microseconds on a machine with a timer crystal, else system ticks plus
\* the scheduled ticks, which are then cleared.
TimerAdvance(crystal, us, sys_ticks, pending) ==
    IF crystal THEN [ticks |-> us, pending |-> pending]
    ELSE [ticks |-> sys_ticks + pending, pending |-> 0]

run_devices(us, sys_ticks, kb_event, typematic, timer, order) ==
    LET arg == [us |-> us, sys_ticks |-> sys_ticks, kb_event |-> kb_event]
        ran_dirty == timer.ran_dirty
        ticked == timer.ticked
        element == timer.element
        timer_accum == timer.timer_accum
    IN  \E k \in {KeyboardPart(us, kb_event, typematic)} :
        IF ~k.slots["pic1"].present \/ ~k.slots["pit"].present
        THEN \* self.pic1.as_mut().unwrap() / self.pit.take().unwrap() on None
             /\ panicked' = TRUE
             /\ slots' = k.slots
             /\ kb_us_accum' = k.accum
             /\ ret' = [op |-> "run_devices", arg |-> arg, res |-> Err("panic"),
                        log |-> k.log]
             /\ UNCHANGED <<videocards, cursor, dma_counter, pit_ticks_advance,
                            timer_trigger1_armed, timer_trigger2_armed, cga_tick_accum,
                            refresh_active>>
        ELSE LET advance == TimerAdvance(machine_desc.timer_crystal, us, sys_ticks,
                                         pit_ticks_advance)
                 pit_arg == advance.ticks
                 ch1 == k.slots["pit"].st.ch1
                 pit_dirty == ch1.dirty \/ (ch1.counting /\ ran_dirty)
                 pit_reload_value == timer.ch0_reload
                 refresh == RefreshEvent(pit_dirty, ch1.counting, ticked, ch1.reload,
                                         element, timer_accum)
                 t1 == timer_trigger1_armed \/ pit_reload_value = 5117
                 t2 == timer_trigger2_armed \/ pit_reload_value = 5162
                 present(n) == k.slots[n].present
                 ran == [n \in SlotNames |->
                          CASE n = "pic1" -> Ran(k.slots[n], sys_ticks)
                            [] n = "ppi" /\ present(n) -> Ran(k.slots[n], us)
                            [] n = "pit" -> [Ran(k.slots[n], pit_arg) EXCEPT
                                                !.st.ch1.dirty = FALSE,
                                                !.st.ch1.was_counting = ch1.counting]
                            [] n \in {"fdc", "hdc"} /\ present(n) -> Ran(k.slots[n], us)
                            [] n = "dma1" /\ present(n) -> Ran(k.slots[n], 0)
                            [] n = "serial" /\ present(n) -> Ran(k.slots[n], us)
                            [] n = "mouse" /\ present(n) /\ present("serial") ->
                                   Ran(k.slots[n], us)
                            [] OTHER -> k.slots[n]]
                 log == k.log
                        \o <<Step("pic1", sys_ticks)>>
                        \o (IF present("ppi") THEN <<Step("ppi", us)>> ELSE <<>>)
                        \o <<Step("pit", pit_arg)>>
                        \o (IF present("fdc") THEN <<Step("fdc", us)>> ELSE <<>>)
                        \o (IF present("hdc") THEN <<Step("hdc", us)>> ELSE <<>>)
                        \o <<Step("dma1", 0)>>
                        \o (IF present("serial") THEN <<Step("serial", us)>> ELSE <<>>)
                        \o (IF present("serial") /\ present("mouse")
                            THEN <<Step("mouse", us)>> ELSE <<>>)
                 calls == DeviceCalls(k)
             IN  \E sl \in {ran},
                    v \in {RunVideo([cards |-> videocards, accum |-> cga_tick_accum,
                                     t1 |-> t1, t2 |-> t2, log |-> log],
                                    order, 1, us, sys_ticks, pit_reload_value)} :
                 IF ~present("dma1")
                 THEN \* self.dma1.take().unwrap() on None: the timer is back in its slot
                      /\ panicked' = TRUE
                      /\ slots' = [n \in SlotNames |->
                                     IF n \in {"pic1", "ppi", "pit"} THEN sl[n] ELSE k.slots[n]]
                      /\ kb_us_accum' = k.accum
                      /\ pit_ticks_advance' = advance.pending
                      /\ dma_counter' = refresh.dma_counter
                      /\ refresh_active' = refresh.refresh_active
                      /\ timer_trigger1_armed' = t1
                      /\ timer_trigger2_armed' = t2
                      /\ ret' = [op |-> "run_devices", arg |-> arg, res |-> Err("panic"),
                                 log |-> SubSeq(log, 1, Len(k.log) + 2
                                                        + (IF present("ppi") THEN 1 ELSE 0))]
                      /\ UNCHANGED <<videocards, cursor, cga_tick_accum>>
                 ELSE /\ slots' = sl
                      /\ kb_us_accum' = k.accum
                      /\ pit_ticks_advance' = advance.pending
                      /\ dma_counter' = refresh.dma_counter
                      /\ refresh_active' = refresh.refresh_active
                      /\ videocards' = v.cards
                      /\ cga_tick_accum' = v.accum
                      /\ timer_trigger1_armed' = v.t1
                      /\ timer_trigger2_armed' = v.t2
                      /\ ret' = [op |-> "run_devices", arg |-> arg,
                                 res |-> refresh.event,
                                 log |-> v.log,
                                 calls |-> calls \o [i \in 1..(Len(v.log) - Len(log)) |->
                                                        Handler("video", FALSE, {})],
                                 seen |-> [dirty |-> pit_dirty, counting |-> ch1.counting,
                                           was_counting |-> ch1.was_counting,
                                           ticked |-> ticked, reload |-> ch1.reload,
                                           element |-> element, timer_accum |-> timer_accum]]
                      /\ UNCHANGED <<cursor, panicked>>

\* The fields run_devices leaves alone, and the bound on its invocations.
RunFrame ==
    /\ ~panicked
    /\ nruns < MaxRuns
    /\ nruns' = nruns + 1
    /\ UNCHANGED <<timingvars, table_arg, nops, nio, last_written, conventional_size,
                   memory, memory_mask, desc_vec, mmio_map, mmio_map_fast, mmio_data,
                   machine_desc, io_map, mach>>

\* The reports a timer can give in the current state: the channel-1 details
\* are read only when the channel is counting and dirty.
TimerReports(ch0_reloads) ==
    LET counting == slots["pit"].present /\ slots["pit"].st.ch1.counting
    IN  IF counting
        THEN {TimerReport(ran_dirty, ticked, element, timer_accum, ch0) :
                 ran_dirty \in BOOLEAN, ticked \in BOOLEAN, element \in ElementArgs,
                 timer_accum \in TimerAccumArgs, ch0 \in ch0_reloads}
        ELSE {TimerReport(FALSE, FALSE, 0, 0, ch0) : ch0 \in ch0_reloads}

\* Whether the timed keyboard update can produce a scancode in this slice.
Typematics(us) == IF kb_us_accum + us > KB_UPDATE_RATE THEN BOOLEAN ELSE {FALSE}

RunDevices ==
    \E us \in UsArgs, sys_ticks \in SysTickArgs, kb_event \in KeyArgs,
       timer \in TimerReports(Ch0ReloadArgs), order \in CardOrders :
        \E typematic \in Typematics(us) :
            /\ RunFrame
            /\ run_devices(us, sys_ticks, kb_event, typematic, timer, order)

\* Slices in which only the timer is of interest: no key event, a short
\* slice, and channel 0 away from the reload values the scheduler watches.
RunTimer ==
    \E timer \in TimerReports({0}), order \in CardOrders :
        /\ RunFrame
        /\ run_devices(1000, 4, NoKey, FALSE, timer, order)

\* Slices in which only the keyboard is of interest.
RunKeyboard ==
    \E us \in UsArgs, kb_event \in KeyArgs, order \in CardOrders :
        \E typematic \in Typematics(us) :
            /\ RunFrame
            /\ run_devices(us, 4, kb_event, typematic, QuietTimer, order)

\* Slices in which only the elapsed time is of interest: no key event and
\* a timer that reports no change.
RunSlice ==
    \E us \in UsArgs, sys_ticks \in SysTickArgs, order \in CardOrders :
        \E typematic \in Typematics(us) :
            /\ RunFrame
            /\ run_devices(us, sys_ticks, NoKey, typematic, QuietTimer, order)

\* adjust_pit: extra ticks for the next advance of the timer.
AdjustPit ==
    \E ticks \in {1, 2} :
        /\ ~panicked
        /\ pit_ticks_advance < 2 * MaxOps
        /\ pit_ticks_advance' = pit_ticks_advance + ticks
        /\ ret' = [op |-> "adjust_pit", arg |-> ticks, res |-> <<>>]
        /\ UNCHANGED <<timingvars, table_arg, memvars, panicked, nops, last_written,
                       machine_desc, io_map, slots, cursor, dma_counter,
                       timer_trigger1_armed, timer_trigger2_armed, cga_tick_accum,
                       kb_us_accum, refresh_active, nruns, nio, mach>>

\* ---------------------------------------------------------- machine ---
\* CPU steps in a behaviour.
MaxSteps == 3

\* Calls of the stack routines in one behaviour.
MaxStack == 3
STEP_OVER_TIMEOUT == 320000
\* The cycle count substituted for an instruction that reports none.
fake_cycles == 7

ExecutionOperations == {"None", "Pause", "Step", "StepOver", "Run", "Reset"}
CycleTargetArgs == {8}
StepCycleArgs == {0, 200000}
ScancodeArgs == {30}

\* The results of cpu.step: Ok((Normal, n)), Ok((Call(target), n)),
\* Ok((BreakpointHit, _)), Err(CpuHaltedError) and any other Err.
StepResult(kind, cycles) == [kind |-> kind, cycles |-> cycles]
StepResults ==
    {StepResult(kind, cycles) : kind \in {"Normal", "Call"}, cycles \in StepCycleArgs}
        \cup {StepResult("BreakpointHit", 0), StepResult("Halted", 0), StepResult("Error", 0)}
Yielding == {"Normal", "Call", "Halted", "Error"}

\* A set_op that also accepts Run on a halted machine.
set_op_RunWhenHalted(ec, op) ==
    CASE op = "Pause" -> IF ec.state = "Running" THEN [state |-> "Paused", op |-> op] ELSE ec
      [] op \in {"Step", "StepOver"} ->
             IF ec.state \in {"Paused", "BreakpointHit"} THEN [ec EXCEPT !.op = op] ELSE ec
      [] op = "Run" ->
             IF ec.state \in {"Paused", "BreakpointHit", "Halted"}
             THEN [ec EXCEPT !.op = op] ELSE ec
      [] op = "Reset" -> [ec EXCEPT !.op = op]
      [] OTHER -> ec

set_op(ec, op) ==
    CASE op = "Pause" -> IF ec.state = "Running" THEN [state |-> "Paused", op |-> op] ELSE ec
      [] op \in {"Step", "StepOver", "Run"} ->
             IF ec.state \in {"Paused", "BreakpointHit"} THEN [ec EXCEPT !.op = op] ELSE ec
      [] op = "Reset" -> [ec EXCEPT !.op = op]
      [] OTHER -> ec

\* A get_op that reads the operation and leaves it pending, as peek_op does.
get_op_Peeks(ec) == [op |-> ec.op, ec |-> ec]

\* get_op: the operation read, and the control with the operation cleared.
get_op(ec) == [op |-> ec.op, ec |-> [ec EXCEPT !.op = "None"]]

\* What a machine action leaves alone.  Calls from outside (set_op,
\* key_press, key_release, run) borrow the machine or its control
\* exclusively, so none of them happens while run is under way.
Outside == mach.pc = "idle"
MachFrame ==
    UNCHANGED <<timingvars, table_arg, memvars, panicked, nops, last_written, devvars, ret>>

SetOp ==
    \E op \in ExecutionOperations :
        /\ Outside
        /\ mach' = [mach EXCEPT !.exec = set_op(mach.exec, op)]
        /\ MachFrame

KeyPress ==
    \E code \in ScancodeArgs :
        /\ Outside
        /\ Len(mach.kb_buf) < MaxOps
        /\ mach' = [mach EXCEPT !.kb_buf = Append(@, code)]
        /\ MachFrame

KeyRelease ==
    \E code \in ScancodeArgs :
        /\ Outside
        /\ Len(mach.kb_buf) < MaxOps
        /\ mach' = [mach EXCEPT !.kb_buf = Append(@, BitOr(code, 128))]
        /\ MachFrame

\* Machine::run returns: the locals are gone.
Return(m, value) == [m EXCEPT !.pc = "idle", !.loc = NoLocals, !.result = value]

\* Machine::run up to the loop, for a control without a pending reset: the
\* operation is consumed and decides the cycle target and the flags.
Prologue(ec, cycle_target) ==
    LET got == get_op(ec)
        go(state, skip, over, adj) ==
            [go |-> TRUE, ec |-> [got.ec EXCEPT !.state = state], skip_breakpoint |-> skip,
             step_over |-> over, cycle_target_adj |-> adj]
        stay == [go |-> FALSE, ec |-> got.ec, skip_breakpoint |-> FALSE,
                 step_over |-> FALSE, cycle_target_adj |-> 0]
    IN  CASE ec.state = "Paused" ->
                 CASE got.op = "Step" -> go("Paused", TRUE, FALSE, 1)
                   [] got.op = "StepOver" -> go("Paused", TRUE, TRUE, 1)
                   [] got.op = "Run" -> go("Running", FALSE, FALSE, cycle_target)
                   [] OTHER -> stay
          [] ec.state = "Running" -> go("Running", FALSE, FALSE, cycle_target)
          [] ec.state = "BreakpointHit" ->
                 CASE got.op = "Step" -> go("Paused", TRUE, FALSE, 1)
                   [] got.op = "StepOver" -> go("Paused", TRUE, TRUE, 1)
                   [] got.op = "Run" -> go("Running", TRUE, FALSE, cycle_target)
                   [] OTHER -> stay
          [] ec.state = "Halted" ->
                 CASE got.op = "Run" -> go("Running", FALSE, FALSE, cycle_target)
                   [] OTHER -> stay

\* Machine::run is called with a reset pending: the machine is reset (the
\* CPU, the bus's bytes, every installed device that has a reset) and run
\* returns 0.  The ROM manager of the model holds no image to reload.
RunReset ==
    /\ Outside
    /\ mach.exec.op = "Reset"
    /\ ~panicked
    /\ mach' = [Return(mach, 0) EXCEPT !.exec = [get_op(mach.exec).ec EXCEPT !.state = "Paused"],
                                       !.error = FALSE, !.cpu_error = FALSE]
    /\ clear
    /\ slots' = [n \in SlotNames |->
                   CASE n = "pit" /\ slots[n].present -> NewPit
                     [] n \in {"pic1", "dma1"} /\ slots[n].present ->
                            [slots[n] EXCEPT !.last = [method |-> "reset", port |-> 0,
                                                       data |-> 0, ticks |-> 0]]
                     [] OTHER -> slots[n]]
    /\ videocards' = [v \in DOMAIN videocards |->
                         [videocards[v] EXCEPT !.last = [method |-> "reset", address |-> 0,
                                                         data |-> 0, ticks |-> 0]]]
    /\ UNCHANGED <<timingvars, table_arg, conventional_size, desc_vec, mmio_map,
                   mmio_map_fast, mmio_data, panicked, nops, machine_desc, io_map,
                   accumvars, nruns, nio, ret>>

\* Machine::run is called without a reset pending.
RunEnter ==
    \E cycle_target \in CycleTargetArgs :
        LET p == Prologue(mach.exec, cycle_target)
        IN  /\ Outside
            /\ mach.exec.op # "Reset"
            /\ mach' = IF p.go
                       THEN [mach EXCEPT !.exec = p.ec, !.pc = "head",
                                         !.loc = [NoLocals EXCEPT
                                                    !.skip_breakpoint = p.skip_breakpoint,
                                                    !.step_over = p.step_over,
                                                    !.cycle_target_adj = p.cycle_target_adj]]
                       ELSE [Return(mach, 0) EXCEPT !.exec = p.ec]
            /\ MachFrame

\* The head of the main loop: the cycle target, then cpu.is_error().  The
\* bus of the model holds no checkpoint for the instruction pointer.
LoopHead ==
    /\ mach.pc = "head"
    /\ mach' = IF mach.loc.cycles_elapsed < mach.loc.cycle_target_adj /\ ~mach.cpu_error
               THEN [mach EXCEPT !.pc = "step", !.loc.step_over_target = FALSE]
               ELSE Return(mach, mach.loc.instr_count)
    /\ MachFrame

\* The steps of a behaviour are counted up to MaxSteps.  Beyond that a step
\* is taken only if it reports no cycles, and the counts of instructions
\* stay where they are: a loop that makes no progress is then a cycle of
\* states, and every other loop is cut by the bound.
StepAllowed(m, r) == m.nsteps < MaxSteps \/ r.cycles = 0
Counted1(m, n) == IF m.nsteps < MaxSteps THEN n + 1 ELSE n

\* The accounting after a step that yields a cycle count.
Accounted(m, r, inner) ==
    LET cpu_cycles == IF r.kind \in {"Normal", "Call"} THEN r.cycles ELSE 0
    IN  [m EXCEPT !.exec.state = IF r.kind = "Halted" THEN "Halted" ELSE @,
                  !.error = @ \/ r.kind \in {"Halted", "Error"},
                  !.cpu_error = @ \/ r.kind \in {"Halted", "Error"},
                  !.cpu_cycles = @ + cpu_cycles,
                  !.loc.instr_count = Counted1(m, @),
                  !.loc.cycles_elapsed = @ + cpu_cycles,
                  !.loc.step_over_cycles = IF inner THEN @ + cpu_cycles ELSE @,
                  !.loc.step_over_target = IF inner THEN @ ELSE r.kind = "Call",
                  !.loc.cpu_cycles = IF cpu_cycles = 0 THEN fake_cycles ELSE cpu_cycles,
                  !.nsteps = Counted1(m, @), !.last_step = r.kind, !.devs_since = 0]

\* A step that reports BreakpointHit: run returns at once.
Broken(m, value) ==
    [Return(m, value) EXCEPT !.exec.state = "BreakpointHit", !.nsteps = Counted1(m, @),
                             !.last_step = "BreakpointHit", !.devs_since = 0]

\* cpu.step in the main loop.
CpuStep ==
    \E r \in StepResults :
        /\ mach.pc = "step"
        /\ StepAllowed(mach, r)
        /\ mach' = IF r.kind = "BreakpointHit" THEN Broken(mach, 1)
                   ELSE [Accounted(mach, r, FALSE) EXCEPT !.pc = "devices"]
        /\ MachFrame

\* A run_devices that is skipped for an instruction that reported no cycles.
MachineRunDevices_SkipsIdle(m) ==
    IF m.loc.cpu_cycles = fake_cycles THEN m
    ELSE [m EXCEPT !.bus_call = [cycles |-> m.loc.cpu_cycles, kb_byte_opt |-> <<>>],
                   !.devs_since = @ + 1]

\* A run_devices that takes a key from kb_buf on every call.
MachineRunDevices_PopsEveryStep(m) ==
    LET pop == Len(m.kb_buf) > 0
    IN  [m EXCEPT !.kb_buf = IF pop THEN Tail(@) ELSE @,
                  !.loc.kb_event_processed = @ \/ pop,
                  !.bus_call = [cycles |-> m.loc.cpu_cycles,
                                kb_byte_opt |-> IF pop THEN <<Head(m.kb_buf)>> ELSE <<>>],
                  !.devs_since = @ + 1]

\* Machine::run_devices: one key of kb_buf per run, then the bus's
\* run_devices with the elapsed time of the instruction.
MachineRunDevices(m) ==
    LET pop == Len(m.kb_buf) > 0 /\ ~m.loc.kb_event_processed
    IN  [m EXCEPT !.kb_buf = IF pop THEN Tail(@) ELSE @,
                  !.loc.kb_event_processed = @ \/ pop,
                  !.bus_call = [cycles |-> m.loc.cpu_cycles,
                                kb_byte_opt |-> IF pop THEN <<Head(m.kb_buf)>> ELSE <<>>],
                  !.devs_since = @ + 1]

\* run_devices after a step of the main loop, and the entry into the
\* step-over loop: at_target is whether cs:ip is the return address.
RunDevicesMain ==
    \E at_target \in BOOLEAN :
        /\ mach.pc = "devices"
        /\ mach' = LET m == MachineRunDevices(mach)
                   IN  IF m.loc.step_over /\ m.loc.step_over_target
                       THEN [m EXCEPT !.loc.step_over_cycles = 0,
                                      !.loc.at_target = at_target,
                                      !.pc = IF at_target THEN "head" ELSE "so_step"]
                       ELSE [m EXCEPT !.pc = "head"]
        /\ MachFrame

\* cpu.step in the step-over loop.
CpuStepOver ==
    \E r \in StepResults :
        /\ mach.pc = "so_step"
        /\ StepAllowed(mach, r)
        /\ mach' = IF r.kind = "BreakpointHit" THEN Broken(mach, mach.loc.instr_count)
                   ELSE [Accounted(mach, r, TRUE) EXCEPT !.pc = "so_devices"]
        /\ MachFrame

\* run_devices after a step of the step-over loop, then the timeout and
\* the loop condition.
RunDevicesOver ==
    \E at_target \in BOOLEAN :
        /\ mach.pc = "so_devices"
        /\ mach' = LET m == MachineRunDevices(mach)
                   IN  [m EXCEPT !.loc.at_target = at_target,
                                 !.pc = IF m.loc.step_over_cycles > STEP_OVER_TIMEOUT \/ at_target
                                        THEN "head" ELSE "so_step"]
        /\ MachFrame

\* ------------------------------------------------ the stack's routines ---
\* The values pushed, the registers named, and the stack pointers a
\* behaviour starts from: next to the wrap at 0, and away from it.
StackBytes == {18, 255}
StackWords == {0, 4660, 65535}
RegisterArgs == {"AX", "SP", "BP", "CS", "SS", "InvalidRegister"}
ReadWriteFlags == {"Normal", "RNI"}
StackStarts == {0, 1, 2, 3, 256, 65534, 65535}

\* A call of a stack routine: ret keeps its name, its argument, the SP it
\* found and what it returned.
StackCall(op, arg, r) ==
    /\ Outside
    /\ ~panicked
    /\ mach.nstack < MaxStack
    /\ mach' = [mach EXCEPT !.cpu = r.cpu, !.nstack = @ + 1]
    /\ panicked' = r.panic
    /\ ret' = [op |-> op, arg |-> arg, sp |-> mach.cpu.sp, res |-> r.result]
    /\ UNCHANGED <<timingvars, table_arg, memvars, nops, last_written, devvars>>

PushU8 ==
    \E data \in StackBytes, flag \in ReadWriteFlags :
        StackCall("push_u8", data, push_u8(mach.cpu, data, flag))

PushU16 ==
    \E data \in StackWords, flag \in ReadWriteFlags :
        StackCall("push_u16", data, push_u16(mach.cpu, data, flag))

PopU16 == StackCall("pop_u16", <<>>, pop_u16(mach.cpu))

PushRegister16 ==
    \E reg \in RegisterArgs, flag \in ReadWriteFlags :
        StackCall("push_register16", reg, push_register16(mach.cpu, reg, flag))

PopRegister16 ==
    \E reg \in RegisterArgs, flag \in ReadWriteFlags :
        StackCall("pop_register16", reg, pop_register16(mach.cpu, reg, flag))

PushFlags ==
    \E wflag \in ReadWriteFlags : StackCall("push_flags", <<>>, push_flags(mach.cpu, wflag))

PopFlags == StackCall("pop_flags", <<>>, pop_flags(mach.cpu))


\* ------------------------------------------------- the bus's behaviours ---
Init ==
    /\ \E factor \in {Divisor(3), Multiplier(2)} : BusNew(factor)
    /\ InitCommon

Next ==
    \/ GetReadWait
    \/ GetWriteWait
    \/ ReadU8
    \/ PeekU8
    \/ ReadU16
    \/ WriteU8
    \/ WriteU16
    \/ SetFlags
    \/ ClearFlags
    \/ RegisterMap
    \/ CopyFrom
    \/ InstallCheckpoints
    \/ ClearCheckpoints
    \/ Clear
    \/ Reset
    \/ SetConventionalSize
    \/ InstallDevices

Spec == Init /\ [][Next]_vars

\* Raw memory, ROM and the conventional size.
NextMemory ==
    \/ WriteU8
    \/ WriteU16
    \/ ReadU8
    \/ ReadU16
    \/ CopyFrom
    \/ SetConventionalSize
    \/ SetFlags

SpecMemory == Init /\ [][NextMemory]_vars

\* The dispatch of memory accesses to raw memory or to a video card.
NextDispatch ==
    \/ RegisterMap
    \/ InstallDevices
    \/ SetFlags
    \/ WriteU8
    \/ WriteU16
    \/ GetReadWait
    \/ GetWriteWait
    \/ ReadU8
    \/ PeekU8
    \/ ReadU16

SpecDispatch == Init /\ [][NextDispatch]_vars

\* Registrations that overlap, and the reads they dispatch.
NextOverlap ==
    \/ RegisterMap
    \/ InstallDevices
    \/ ReadU8

SpecOverlap == Init /\ [][NextOverlap]_vars

\* The video cards under the scheduler.
NextVideo ==
    \/ InstallCards
    \/ RunSlice

SpecVideo == Init /\ [][NextVideo]_vars

\* The flags of an address as the bus reports them.
NextFlagQuery ==
    \/ CopyFrom
    \/ SetFlags
    \/ GetFlags

SpecFlagQuery == Init /\ [][NextFlagQuery]_vars

\* Port reads, from outside and from inside a device's handler.
NextReentry ==
    \/ FirstInstall
    \/ IoReadU8
    \/ IoWriteReading

SpecReentry == Init /\ [][NextReentry]_vars

\* The stack routines alone, from every starting stack pointer.
InitStack ==
    /\ BusNew(Divisor(3))
    /\ \E sp \in StackStarts : mach = [MachineNew EXCEPT !.cpu.sp = sp]
    /\ table_arg = Unfilled
    /\ panicked = FALSE
    /\ nops = 0
    /\ nruns = 0
    /\ nio = 0
    /\ last_written = [a \in 0..(ADDRESS_SPACE - 1) |-> NoByte]
    /\ ret = NoCall

NextStack ==
    \/ PushU8
    \/ PushU16
    \/ PopU16
    \/ PushRegister16
    \/ PopRegister16
    \/ PushFlags
    \/ PopFlags

SpecStack == InitStack /\ [][NextStack]_vars

\* The flag array and the MMIO map over the life of the bus.
NextFlags ==
    \/ RegisterMap
    \/ SetFlags
    \/ ClearFlags
    \/ CopyFrom
    \/ InstallCheckpoints
    \/ ClearCheckpoints
    \/ Clear
    \/ Reset

SpecFlags == Init /\ [][NextFlags]_vars


\* A reset of a bus that holds bytes, flags, ROM and devices.
NextReset ==
    \/ InstallMachine
    \/ WriteU8
    \/ SetFlags
    \/ CopyFrom
    \/ Reset

SpecReset == Init /\ [][NextReset]_vars

\* The machine's run loop.
NextMachine ==
    \/ SetOp
    \/ KeyPress
    \/ KeyRelease
    \/ RunReset
    \/ RunEnter
    \/ LoopHead
    \/ CpuStep
    \/ RunDevicesMain
    \/ CpuStepOver
    \/ RunDevicesOver

SpecMachine == Init /\ [][NextMachine]_vars

\* A step-over from its request to its end.  Machine::run is sequential
\* code: once it is in the step-over loop its next statement is executed,
\* and cpu.step and run_devices return.
NextStepOver ==
    \/ SetOp
    \/ RunEnter
    \/ LoopHead
    \/ CpuStep
    \/ RunDevicesMain
    \/ CpuStepOver
    \/ RunDevicesOver

SpecStepOver ==
    Init /\ [][NextStepOver]_vars /\ WF_vars(CpuStepOver) /\ WF_vars(RunDevicesOver)

\* Installations that succeed or fail, and port I/O on what they leave.
NextInstall ==
    \/ InstallAny
    \/ RegisterMap
    \/ IoWriteU8

SpecInstall == Init /\ [][NextInstall]_vars

\* The scheduler on an installed machine, with phase adjustments of the timer.
NextSchedule ==
    \/ FirstInstall
    \/ AdjustPit
    \/ RunSlice

SpecSchedule == Init /\ [][NextSchedule]_vars

\* The bus calls that move a device out of its slot.
NextSlots ==
    \/ FirstInstall
    \/ IoWriteU8
    \/ RunTimer

SpecSlots == Init /\ [][NextSlots]_vars

\* Port I/O on a bus with or without installed devices.
NextIo ==
    \/ InstallMachine
    \/ IoReadU8
    \/ IoWriteU8

SpecIo == Init /\ [][NextIo]_vars

\* The timer's channel 1 as the scheduler sees it.
NextRefresh ==
    \/ FirstInstall
    \/ ProgramTimer
    \/ RunTimer

SpecRefresh == Init /\ [][NextRefresh]_vars

\* The keyboard path of the scheduler.
NextKeyboard ==
    \/ FirstInstall
    \/ WritePpi
    \/ RunKeyboard

SpecKeyboard == Init /\ [][NextKeyboard]_vars

\* ============================================================== claims ===
\* ceil(cycles / n) and cycles * n, without the rounding trick of the source.
ExpectedSysTicks(factor, cycles) ==
    IF factor.kind = "Divisor"
    THEN (cycles \div factor.n) + (IF cycles % factor.n = 0 THEN 0 ELSE 1)
    ELSE cycles * factor.n

\* C1: after update_timing_table, every entry c of 0..511 holds ceil(c/n)
\* system ticks under Divisor(n) (the least t with t*n >= c, so exactly c/n
\* when n divides c) and c*n under Multiplier(n).
C1_TimingTableClosedForm ==
    table_arg.filled =>
        LET n == table_arg.factor.n
            table == TimingTableOf(table_arg)
        IN  \A c \in 0..(TIMING_TABLE_LEN - 1) :
                IF table_arg.factor.kind = "Divisor"
                THEN /\ table[c] * n >= c
                     /\ table[c] = 0 \/ (table[c] - 1) * n < c
                     /\ c % n = 0 => table[c] * n = c
                ELSE /\ table[c] % n = 0
                     /\ table[c] \div n = c

C1_Witness ==
    /\ ret.op = "update_timing_table"
    /\ table_arg = FilledFor(Divisor(3))
    /\ TimingTableOf(table_arg)[6] = 2
    /\ TimingTableOf(table_arg)[7] = 3
    /\ TimingTableOf(table_arg)[TIMING_TABLE_LEN - 1] = 171

\* C2: in every state reached by new and set_cpu_factor calls, every entry
\* of the bus's timing table equals the closed form for the current factor.
C2_TableNeverStale ==
    \A c \in 0..(TIMING_TABLE_LEN - 1) :
        TimingEntry(timing_table, c) = ExpectedSysTicks(cpu_factor, c)

\* C3: read_u8 of an address that is not MMIO, not ROM and below
\* conventional_size returns the byte write_u8 last stored there, with no
\* extra wait, whatever was written to other addresses since.
C3_RawRoundTrip ==
    (ret.op = "read_u8" /\ ret.arg.address < MemLen) =>
        LET a == ret.arg.address
        IN  ( /\ ~IsMmio(memory_mask[a])
              /\ ~IsRom(memory_mask[a])
              /\ a < conventional_size
              /\ last_written[a] # NoByte ) => ret.res = Ok(last_written[a], 0)

C3_Witness ==
    /\ ret.op = "read_u8"
    /\ ret.arg.address < MemLen
    /\ ~IsMmioOrRom(memory_mask[ret.arg.address])
    /\ ret.res = Ok(34, 0)
    /\ \E b \in DOMAIN memory : b # ret.arg.address /\ last_written[b] = 17

\* The write in a step of write_u8 / write_u16 whose bytes all lie in memory.
WriteStepAt(a) ==
    /\ nops' = nops + 1
    /\ \/ ret'.op = "write_u8" /\ InBounds8(a)
       \/ ret'.op = "write_u16" /\ InBounds16(a)

\* C4: a write_u8 or write_u16 at a ROM-flagged, non-MMIO address succeeds
\* and leaves the memory array as it was, and a read_u8 of a non-MMIO
\* address returns the byte of the array (so the pre-write value).
C4_RomWriteDiscarded ==
    [][ /\ ret'.op \in {"write_u8", "write_u16"} =>
              LET a == ret'.arg.address
              IN  (WriteStepAt(a) /\ IsRom(memory_mask[a]) /\ ~IsMmio(memory_mask[a]))
                      => (ret'.res.ok /\ memory' = memory)
        /\ ret'.op = "read_u8" =>
              LET a == ret'.arg.address
              IN  (InBounds8(a) /\ ~IsMmio(memory_mask[a]))
                      => (ret'.res = Ok(memory[a], 0) /\ memory' = memory)
      ]_vars

C4_Witness ==
    /\ ret.op = "write_u16"
    /\ InBounds16(ret.arg.address)
    /\ IsRom(memory_mask[ret.arg.address])
    /\ ~IsMmio(memory_mask[ret.arg.address])
    /\ ret.res.ok
    /\ memory[ret.arg.address] = 85

\* C5: for every conventional_size, a write_u8 / write_u16 (inside the
\* address space) at an address >= conventional_size succeeds and leaves the
\* whole array unchanged, and no write changes a byte at an index >=
\* conventional_size.
C5_NoWriteBeyondConventional ==
    [][ ret'.op \in {"write_u8", "write_u16"} =>
            LET a == ret'.arg.address
            IN  WriteStepAt(a) =>
                    /\ a >= conventional_size => (ret'.res.ok /\ memory' = memory)
                    /\ \A i \in DOMAIN memory :
                          i >= conventional_size => memory'[i] = memory[i]
      ]_vars

AccessOps8 == {"read_u8", "peek_u8", "write_u8", "get_read_wait", "get_write_wait"}
AccessOps16 == {"read_u16", "write_u16"}

\* The call of a step lies outside the memory: its address, or for a 16-bit
\* access the address of its second byte, is at or beyond the memory size.
OutOfBoundsCall(call) ==
    \/ call.op \in AccessOps8 /\ call.arg.address >= MemLen
    \/ call.op \in AccessOps16 /\ call.arg.address + 1 >= MemLen

\* C6: every access outside the memory returns the out-of-bounds error and
\* changes neither memory nor flags nor the MMIO map nor any device.
C6_OutOfBoundsIsError ==
    [][ OutOfBoundsCall(ret') =>
            /\ ret'.res = Err("ReadOutOfBoundsError")
            /\ UNCHANGED memvars
      ]_vars

C6_Witness ==
    /\ ret.op = "read_u16"
    /\ ret.arg.address = MemLen - 1
    /\ ret.res = Err("ReadOutOfBoundsError")
    /\ DOMAIN videocards # {}
    /\ IsMmio(memory_mask[MemLen - 1])

\* C7: at an MMIO-flagged address whose bucket names no device (the default
\* Memory tag), read_u8, read_u16 and peek_u8 return the raw memory content
\* with the default wait and no error.
C7_NoDeviceFallsBackToMemory ==
    (ret.op \in {"read_u8", "read_u16", "peek_u8"} /\ ~OutOfBoundsCall(ret)) =>
        LET a == ret.arg.address
        IN  (IsMmio(memory_mask[a]) /\ mmio_map_fast[Bucket(a)].kind = "Memory") =>
                ret.res = Ok(IF ret.op = "read_u16" THEN Word(memory[a], memory[a + 1])
                             ELSE memory[a],
                             DEFAULT_WAIT_STATES)

\* C8: at an MMIO-flagged address whose bucket names a video card that is
\* not installed, every read and every write returns the MMIO error.
C8_UnresolvedCardIsError ==
    (ret.op \in AccessOps16 \cup {"read_u8", "peek_u8", "write_u8"} /\ ~OutOfBoundsCall(ret)) =>
        LET a == ret.arg.address
            tag == mmio_map_fast[Bucket(a)]
        IN  (IsMmio(memory_mask[a]) /\ tag.kind = "Video" /\ tag.vid \notin DOMAIN videocards) =>
                ret.res = Err("MmioError")

\* C9: register_map with a size that is no multiple of the bucket size fails
\* by assertion before any state change: no flag, no bucket and no list
\* entry has changed.
C9_BadSizeFailsBeforeAnyChange ==
    [][ (ret'.op = "register_map" /\ nops' = nops + 1 /\ ~SizeAccepted(ret'.arg.desc)) =>
            /\ ret'.res = Err("panic")
            /\ memory_mask' = memory_mask
            /\ mmio_map_fast' = mmio_map_fast
            /\ mmio_map' = mmio_map
      ]_vars

InRegisteredRange(a) ==
    \E i \in DOMAIN mmio_map : a \in Range(mmio_map[i].desc)

\* C10: the MMIO flag of an address is set exactly when the address lies in
\* a registered MMIO range.
C10_MmioFlagIffRegistered ==
    \A a \in DOMAIN memory_mask : IsMmio(memory_mask[a]) <=> InRegisteredRange(a)

\* C11: no step of clear_flags (with any mask, 0xFF included),
\* clear_checkpoints, clear, reset or register_map, nor any other flag
\* operation, clears a ROM flag that is set.
C11_RomFlagNeverCleared ==
    [][ \A a \in DOMAIN memory_mask : IsRom(memory_mask[a]) => IsRom(memory_mask'[a]) ]_vars

C11_Witness ==
    /\ ret.op = "clear_flags"
    /\ ret.arg.data = 255
    /\ FlagsInBounds(ret.arg.address)
    /\ IsRom(memory_mask[ret.arg.address])
    /\ memory_mask[ret.arg.address] = MEM_ROM_BIT
    /\ \E i \in DOMAIN desc_vec : desc_vec[i].read_only

\* C12: a port that is absent from the I/O map reads as 0xFF and a write to
\* it does nothing; neither call changes a device, a video card, the I/O
\* map or memory, whatever the cycle count and the clock factor.
C12_UnmappedPortIsInert ==
    [][ (/\ nio' = nio + 1
         /\ ret'.op \in {"io_read_u8", "io_write_u8"}
         /\ ret'.arg.port \notin DOMAIN io_map)
        => /\ ret'.op = "io_read_u8" => ret'.res = NO_IO_BYTE
           /\ ret'.op = "io_write_u8" => ret'.res = <<>>
           /\ ~panicked'
           /\ UNCHANGED <<slots, videocards, io_map, memory, memory_mask, accumvars>> ]_vars

\* An unmapped port has been read on a bus with its devices installed.
C12_Witness ==
    /\ ret.op = "io_read_u8"
    /\ ret.arg.port = UNMAPPED_PORT
    /\ ret.res = NO_IO_BYTE
    /\ PIT_PORT \in DOMAIN io_map
    /\ slots["pit"].present
    /\ cpu_factor.kind = "Multiplier"

\* A call record of an access that reached an installed video card.
ReachedCard(call) == "dev_wait" \in DOMAIN call

\* C13: for an MMIO address owned by an installed video adapter, the wait
\* get_write_wait(addr, cycles) returns equals the extra wait
\* write_u8(addr, data, cycles) returns, the card answering both calls with
\* the same wait.
C13_WriteWaitAgrees ==
    [][ (/\ ret.op = "get_write_wait"
         /\ ReachedCard(ret)
         /\ ret'.op = "write_u8"
         /\ ReachedCard(ret')
         /\ ret'.arg.address = ret.arg.address
         /\ ret'.arg.cycles = ret.arg.cycles
         /\ ret'.dev_wait = ret.dev_wait)
        => ret'.res.wait = ret.res.wait ]_vars

\* C14: read_u8 on an MMIO address owned by an installed adapter returns as
\* extra wait the adapter's wait converted to CPU cycles.
C14_ReadWaitConverted ==
    (ret.op = "read_u8" /\ ReachedCard(ret))
        => ret.res.wait = system_ticks_to_cpu_cycles(cpu_factor, ret.dev_wait)

\* C15: peek_u8 changes nothing, at any address: memory, flags, the MMIO
\* map, the cursor, the accumulators and every device are as before; and
\* at an address without the MMIO flag peek_u8 and read_u8 both return the
\* byte held in memory.
C15_PeekIsPure ==
    [][ /\ ret'.op = "peek_u8"
           => UNCHANGED <<timingvars, table_arg, memvars, devvars, panicked, last_written>>
        /\ (/\ ret'.op \in {"peek_u8", "read_u8"}
            /\ InBounds8(ret'.arg.address)
            /\ ~IsMmio(memory_mask[ret'.arg.address]))
           => /\ ret'.res.ok
              /\ ret'.res.val = memory[ret'.arg.address]
              /\ memory' = memory ]_vars

\* A byte written earlier has been peeked on a bus with its devices installed.
C15_Witness ==
    /\ ret.op = "peek_u8"
    /\ InBounds8(ret.arg.address)
    /\ ~IsMmio(memory_mask[ret.arg.address])
    /\ ret.res = Ok(memory[ret.arg.address], 0)
    /\ ret.res.val \in ByteArgs
    /\ slots["pit"].present
    /\ videocards # <<>>

\* C16: reset sets every memory byte to 0 and clears the return-address
\* flag of every address; the I/O map, the MMIO map and list, the ROM and
\* MMIO flags, conventional_size and the occupancy of every device slot are
\* as before.
C16_ResetKeepsTheMachine ==
    [][ (ret'.op = "reset" /\ nops' = nops + 1)
        => /\ \A a \in DOMAIN memory' : memory'[a] = 0
           /\ \A a \in DOMAIN memory_mask' :
                 /\ BitAnd(memory_mask'[a], MEM_RET_BIT) = 0
                 /\ IsRom(memory_mask'[a]) = IsRom(memory_mask[a])
                 /\ IsMmio(memory_mask'[a]) = IsMmio(memory_mask[a])
           /\ UNCHANGED <<io_map, mmio_map, mmio_map_fast, mmio_data, conventional_size>>
           /\ \A n \in SlotNames : slots'[n].present = slots[n].present
           /\ DOMAIN videocards' = DOMAIN videocards ]_vars

\* A bus with installed devices and a registered aperture has been reset.
C16_Witness ==
    /\ ret.op = "reset"
    /\ PIT_PORT \in DOMAIN io_map
    /\ slots["pit"].present
    /\ videocards # <<>>
    /\ \E a \in DOMAIN memory_mask : IsMmio(memory_mask[a])
    /\ \A a \in DOMAIN memory : memory[a] = 0

\* A step that is a completed run_devices invocation.
Inspected == nruns' = nruns + 1 /\ ret'.op = "run_devices" /\ "seen" \in DOMAIN ret'
\* The invocation observes channel 1 counting after the previous inspection
\* observed it not counting.
StartedCounting == Inspected /\ ~ret'.seen.was_counting /\ ret'.seen.counting

StoppedCounting == Inspected /\ ret'.seen.was_counting /\ ~ret'.seen.counting

Invoked == nruns' = nruns + 1 /\ ret'.op = "run_devices"
CallsOn(log, name) == {i \in DOMAIN log : log[i].dev = name}
\* The PPI is present and reports the keyboard enabled, with a primary
\* interrupt controller to pulse.
KbEnabled ==
    /\ slots["ppi"].present
    /\ slots["ppi"].st.kb_enabled
    /\ slots["pic1"].present
\* Every scancode drained in the invocation is handed to the PPI at once.
EveryDrainLatched(log) ==
    \A i \in CallsOn(log, "recv_scancode") :
        /\ i + 1 \in DOMAIN log
        /\ log[i + 1] = Step("send_keyboard", log[i].arg)
\* The pulses of the invocation: one per drained scancode when the keyboard
\* is enabled, none otherwise, each of them counted by the controller.
PulsePerDrain(log) ==
    /\ Cardinality(CallsOn(log, "pulse_interrupt"))
          = (IF KbEnabled THEN Cardinality(CallsOn(log, "recv_scancode")) ELSE 0)
    /\ \A i \in CallsOn(log, "pulse_interrupt") : log[i].arg = 1
    /\ slots["pic1"].present
          => slots'["pic1"].st.pulses
                = slots["pic1"].st.pulses + Cardinality(CallsOn(log, "pulse_interrupt"))

\* C19 (amended): in run_devices every scancode drained from the keyboard is
\* latched into the PPI when a PPI is present, and dropped when none is; it
\* causes exactly one pulse on line 1 of the primary interrupt controller
\* if the PPI is present and reports the keyboard enabled, and none
\* otherwise.  An invocation with one key-down event, the keyboard enabled
\* and the accumulated keyboard time including this slice not above the
\* update threshold produces exactly one pulse.
C19_ScancodeLatchedAndPulsed ==
    [][ Invoked
        => /\ slots["ppi"].present => EveryDrainLatched(ret'.log)
           /\ ~slots["ppi"].present => CallsOn(ret'.log, "send_keyboard") = {}
           /\ PulsePerDrain(ret'.log)
           /\ (/\ slots["keyboard"].present
               /\ ~ret'.arg.kb_event.none
               /\ ret'.arg.kb_event.pressed
               /\ KbEnabled
               /\ kb_us_accum + ret'.arg.us <= KB_UPDATE_RATE)
              => /\ Cardinality(CallsOn(ret'.log, "pulse_interrupt")) = 1
                 /\ slots'["ppi"].st.kb_byte = ret'.arg.kb_event.keycode ]_vars

\* C19 as stated: every drained scancode is latched into the PPI, and a
\* key-down event in a slice shorter than the update threshold gives
\* exactly one pulse when the keyboard is enabled.
C19_OnePulsePerShortSlice ==
    [][ Invoked
        => /\ EveryDrainLatched(ret'.log)
           /\ PulsePerDrain(ret'.log)
           /\ (/\ slots["keyboard"].present
               /\ ~ret'.arg.kb_event.none
               /\ ret'.arg.kb_event.pressed
               /\ KbEnabled
               /\ ret'.arg.us < KB_UPDATE_RATE)
              => Cardinality(CallsOn(ret'.log, "pulse_interrupt")) = 1 ]_vars

\* A key-down event in a slice of 1000 microseconds has been latched and
\* has pulsed the interrupt controller once.
C19_Witness ==
    /\ ret.op = "run_devices"
    /\ ~ret.arg.kb_event.none
    /\ ret.arg.kb_event.pressed
    /\ ret.arg.us = 1000
    /\ Cardinality(CallsOn(ret.log, "pulse_interrupt")) = 1
    /\ slots["ppi"].present
    /\ slots["ppi"].st.kb_byte = ret.arg.kb_event.keycode
    /\ slots["pic1"].st.pulses = 1

\* The latest CPU step has had what is due to it: one run_devices call if
\* it yielded a cycle count, none if it reported BreakpointHit.
StepSettled(m) ==
    /\ m.last_step \in Yielding => m.devs_since = 1
    /\ m.last_step \notin Yielding => m.devs_since = 0

\* cpu.step has returned: the machine leaves one of the two places that call it.
Stepped == mach.pc \in {"step", "so_step"} /\ mach'.pc # mach.pc

\* C20: in Machine::run every CPU step that yields a cycle count (Normal,
\* Call or an error, in the main loop and in the step-over loop) is followed
\* by exactly one run_devices call before the next step and before run
\* returns, and a step that reports BreakpointHit is followed by none.
C20_OneRunDevicesPerStep ==
    [][ /\ Stepped => StepSettled(mach)
        /\ (mach.pc # "idle" /\ mach'.pc = "idle") => StepSettled(mach')
        /\ (Stepped \/ mach'.devs_since # mach.devs_since)
           => \/ Stepped /\ mach'.devs_since = 0
              \/ /\ ~Stepped
                 /\ mach.last_step \in Yielding
                 /\ mach.devs_since = 0
                 /\ mach'.devs_since = 1 ]_vars

\* A step-over has run into its timeout: a call in the main loop and two
\* steps in the step-over loop, each followed by its run_devices.
C20_Witness ==
    /\ mach.nsteps = 3
    /\ mach.loc.step_over
    /\ mach.loc.step_over_cycles > STEP_OVER_TIMEOUT
    /\ mach.last_step \in Yielding
    /\ mach.devs_since = 1
    /\ mach.pc = "head"

\* Machine::run is inside the loop that steps over a call.
InStepOver == mach.pc \in {"so_step", "so_devices"}

\* C21: a step-over always terminates: whatever the CPU does, a run that has
\* entered the step-over loop leaves it (the return address is reached, a
\* breakpoint is hit or STEP_OVER_TIMEOUT is exceeded).
C21_StepOverTerminates == InStepOver ~> ~InStepOver

\* install_devices has returned an error or has panicked.
InstallFailed ==
    /\ nops' = nops + 1
    /\ ret'.op = "install_devices"
    /\ ~ret'.res.ok

\* C22: if install_devices fails, the bus holds no partial machine: the
\* failed call has filled no device slot, added no port to the I/O map and
\* registered no MMIO range.
C22_FailedInstallLeavesNoPart ==
    [][InstallFailed => UNCHANGED <<slots, io_map, videocards, mmio_map, mmio_map_fast,
                                    mmio_data, memory_mask>>]_vars

\* C23: for the bus's clock factor and every cycle count, all conversions of
\* CPU cycles to system ticks agree: the table entry, the delta_ticks of
\* DeviceRunContext::new, cpu_cycles_to_system_ticks (and the lookup table
\* set_cpu_factor fills with it) and the ticks io_read_u8 and io_write_u8
\* compute are all ceil(cycles/n) under Divisor(n) and cycles*n under
\* Multiplier(n).
C23_ConversionsAgree ==
    \A c \in CycleArgs :
        LET expected == ExpectedSysTicks(cpu_factor, c)
        IN  /\ TimingSysTicks(cpu_factor, c) = expected
            /\ DeviceRunContextNew(c, cpu_factor).delta_ticks = expected
            /\ cpu_cycles_to_system_ticks(cpu_factor, c) = expected
            /\ IoSysTicks(cpu_factor, c) = expected
            /\ (cycles_to_ticks.filled /\ c < CYCLE_LUT_LEN) => CyclesToTicks(c) = expected

\* C24: set_op accepts an operation only in the states its guard allows.  In
\* every state the control reaches: Pause is accepted only when Running and
\* then sets the state to Paused; Step, StepOver and Run are accepted only
\* when Paused or BreakpointHit and leave the state; in every other state
\* the call leaves the state and the pending operation as they were.
C24_SetOpGuards ==
    \A op \in {"Pause", "Step", "StepOver", "Run"} :
        LET ec == mach.exec
            accepted == IF op = "Pause" THEN ec.state = "Running"
                        ELSE ec.state \in {"Paused", "BreakpointHit"}
        IN  IF accepted
            THEN /\ set_op(ec, op).op = op
                 /\ set_op(ec, op).state = IF op = "Pause" THEN "Paused" ELSE ec.state
            ELSE set_op(ec, op) = ec

\* A Pause was accepted on a running machine, between two calls of run.
C24_Witness ==
    /\ mach.exec = [state |-> "Paused", op |-> "Pause"]
    /\ mach.nsteps > 0
    /\ mach.pc = "idle"

\* A step of set_op, key_press or key_release on an idle machine.
OutsideCall ==
    \/ \E op \in ExecutionOperations : mach' = [mach EXCEPT !.exec = set_op(mach.exec, op)]
    \/ mach'.kb_buf # mach.kb_buf /\ mach'.pc = "idle"

AtRunDevices == mach.pc \in {"devices", "so_devices"}

\* C26: Machine::run takes at most one entry of the keyboard buffer per
\* call, however many instructions it executes, and the entries key_press
\* (code) and key_release (code | 0x80) push are handed to the bus in the
\* order they were pushed, none lost and none twice: the buffer changes only
\* by a push at its back or by run_devices taking its front entry, which is
\* the byte the bus is handed; a run_devices call that takes nothing hands
\* the bus no byte; and once a call of run has taken an entry it takes no
\* other.
C26_OneKeyPerRunInOrder ==
    [][ /\ mach'.kb_buf # mach.kb_buf
           => \/ /\ mach.pc = "idle"
                 /\ \E code \in ScancodeArgs :
                        \/ mach'.kb_buf = Append(mach.kb_buf, code)
                        \/ mach'.kb_buf = Append(mach.kb_buf, BitOr(code, 128))
              \/ /\ AtRunDevices
                 /\ mach.kb_buf # <<>>
                 /\ mach'.kb_buf = Tail(mach.kb_buf)
                 /\ mach'.bus_call.kb_byte_opt = <<Head(mach.kb_buf)>>
                 /\ ~mach.loc.kb_event_processed
                 /\ mach'.loc.kb_event_processed
        /\ (AtRunDevices /\ mach'.kb_buf = mach.kb_buf) => mach'.bus_call.kb_byte_opt = <<>>
        /\ (mach.loc.kb_event_processed /\ mach'.pc # "idle") => mach'.loc.kb_event_processed
      ]_vars

\* A call of run has executed two instructions: its first run_devices took
\* the press of a key, its second took nothing although the release is
\* waiting in the buffer.
C26_Witness ==
    /\ mach.loc.instr_count >= 2
    /\ mach.devs_since = 1
    /\ mach.loc.kb_event_processed
    /\ mach.bus_call.kb_byte_opt = <<>>
    /\ mach.kb_buf = <<158>>

\* The slots whose device run_devices or io_write_u8 moves out.
MovedSlots == {"pit", "dma1", "dma2", "pic1", "pic2", "ppi", "fdc", "hdc"}

\* A run_devices or io_write_u8 call has returned.
SlotCallReturned ==
    /\ ret'.op \in {"run_devices", "io_write_u8"}
    /\ nruns' + nio' = nruns + nio + 1
    /\ ~panicked'

\* Every slot that held a device when the call began holds one of the same
\* kind at its return.
SlotsRestored ==
    \A n \in SlotNames :
        slots[n].present => /\ slots'[n].present
                            /\ DOMAIN slots'[n].st = DOMAIN slots[n].st

\* C27, as amended: at the return of every run_devices and io_write_u8 call
\* each slot that held a device at entry holds it again; during the call,
\* whenever a handler of a device of one of these slots runs with a mutable
\* reference to the bus, that device is out of its slot; and a slot is empty
\* only during the handler of its own device, or, for the primary DMA
\* controller, during the handlers of the floppy and hard-disk controllers,
\* which are handed it directly, or, for the timer, during the PPI's.
C27_SlotsRestoredOwnDeviceOut ==
    [][SlotCallReturned =>
         /\ SlotsRestored
         /\ \A i \in DOMAIN ret'.calls :
                LET h == ret'.calls[i]
                IN  /\ (h.bus /\ h.dev \in MovedSlots) => h.dev \in h.out
                    /\ h.out \subseteq MovedSlots
                    /\ \A n \in h.out :
                           \/ n = h.dev
                           \/ n = "dma1" /\ h.dev \in {"fdc", "hdc"}
                           \/ n = "pit" /\ h.dev = "ppi" ]_vars

\* C27, as stated: at the return each slot holds its device again, and
\* during the call a device is out of its slot exactly while its own
\* handler runs with a mutable reference to the bus.
C27_OutExactlyDuringOwnHandler ==
    [][SlotCallReturned =>
         /\ SlotsRestored
         /\ \A i \in DOMAIN ret'.calls :
                LET h == ret'.calls[i]
                IN  \A n \in MovedSlots : n \in h.out <=> (n = h.dev /\ h.bus) ]_vars

\* A run_devices on a machine with a floppy and a hard-disk controller has
\* returned after a port write to the timer: every device is in its slot,
\* the timer among them with the byte written.
C27_Witness ==
    /\ ret.op = "run_devices"
    /\ ~panicked
    /\ nio > 0
    /\ \E i \in DOMAIN ret.calls : ret.calls[i].dev = "fdc" /\ "dma1" \in ret.calls[i].out
    /\ \A n \in {"pit", "dma1", "pic1", "ppi", "fdc", "hdc"} : slots[n].present
    /\ slots["pit"].st.ch1.reload \in IoByteArgs

\* The place of a device in the scheduler's order.
Rank(dev) ==
    CASE dev = "keyboard" -> 1
      [] dev = "pic1" -> 2
      [] dev = "ppi" -> 3
      [] dev = "pit" -> 4
      [] dev = "fdc" -> 5
      [] dev = "hdc" -> 6
      [] dev = "dma1" -> 7
      [] dev = "serial" -> 8
      [] dev = "mouse" -> 9
      [] dev = "video" -> 10

\* A run_devices call has returned.
RunReturned ==
    /\ ret'.op = "run_devices"
    /\ nruns' = nruns + 1
    /\ ~panicked'

\* How often the returned call advanced a device.
TimesRun(dev) == Cardinality({i \in DOMAIN ret'.calls : ret'.calls[i].dev = dev})

\* The devices of the returned call were advanced in the scheduler's order,
\* none of the slots' devices twice.
RunInOrder ==
    \A i, j \in DOMAIN ret'.calls :
        i < j => \/ Rank(ret'.calls[i].dev) < Rank(ret'.calls[j].dev)
                 \/ ret'.calls[i].dev = "video" /\ ret'.calls[j].dev = "video"

\* C28, as amended: within each run_devices invocation the devices are
\* advanced in the order keyboard, primary interrupt controller, PPI, timer,
\* floppy controller, hard-disk controller, DMA controller, serial
\* controller, serial mouse, video adapters, none more than once.  The
\* interrupt controller, the timer and the DMA controller, and the PPI, the
\* storage controllers and the serial controller where installed, are
\* advanced exactly once, the mouse once if a serial controller is
\* installed; the keyboard is advanced only in an invocation that brings the
\* accumulated time above KB_UPDATE_RATE, and a CGA adapter only in one that
\* brings the accumulated system ticks above 8.
C28_OrderAndAtMostOnce ==
    [][RunReturned =>
         /\ RunInOrder
         /\ \A n \in {"pic1", "ppi", "pit", "fdc", "hdc", "dma1", "serial"} :
                TimesRun(n) = IF slots[n].present THEN 1 ELSE 0
         /\ TimesRun("mouse") = IF slots["mouse"].present /\ slots["serial"].present
                                THEN 1 ELSE 0
         /\ TimesRun("keyboard") = IF /\ slots["keyboard"].present
                                      /\ kb_us_accum + ret'.arg.us > KB_UPDATE_RATE
                                   THEN 1 ELSE 0
         /\ TimesRun("video") = IF cga_tick_accum + ret'.arg.sys_ticks > 8
                                THEN Cardinality(DOMAIN videocards) ELSE 0 ]_vars

\* C28, as stated: within each run_devices invocation every installed
\* device is advanced exactly once, in the scheduler's order.
C28_EveryDeviceExactlyOnce ==
    [][RunReturned =>
         /\ RunInOrder
         /\ \A n \in {"keyboard", "pic1", "ppi", "pit", "fdc", "hdc", "dma1", "serial",
                      "mouse"} :
                TimesRun(n) = IF slots[n].present THEN 1 ELSE 0
         /\ TimesRun("video") = Cardinality(DOMAIN videocards) ]_vars

\* An invocation on a machine with every optional device has advanced all
\* ten: the keyboard's update was due and the adapter's ticks had run up.
C28_Witness ==
    /\ ret.op = "run_devices"
    /\ ~panicked
    /\ Len(ret.calls) = 10
    /\ ret.calls[1].dev = "keyboard"
    /\ ret.calls[7].dev = "dma1"
    /\ ret.calls[9].dev = "mouse"
    /\ ret.calls[10].dev = "video"

\* C29: ticks scheduled with adjust_pit are applied to exactly one advance of
\* the timer.  Every adjust_pit adds its ticks to the pending sum and no
\* other operation changes that sum, so the sum is the ticks scheduled since
\* the last invocation of run_devices; on a machine whose timer has no
\* crystal, a run_devices that reaches the timer advances it by sys_ticks
\* plus the pending sum and leaves pit_ticks_advance at 0.
TimerReached ==
    /\ ret'.op = "run_devices"
    /\ slots["pit"].present
    /\ slots["pic1"].present

C29_ScheduledTicksAppliedOnce ==
    [][/\ ret'.op = "adjust_pit" =>
            pit_ticks_advance' = pit_ticks_advance + ret'.arg
       /\ ret'.op \notin {"adjust_pit", "run_devices"} =>
            pit_ticks_advance' = pit_ticks_advance
       /\ TimerReached /\ ~machine_desc.timer_crystal =>
            /\ slots'["pit"].last.method = "run"
            /\ slots'["pit"].last.ticks = ret'.arg.sys_ticks + pit_ticks_advance
            /\ pit_ticks_advance' = 0]_vars

\* Two adjust_pit calls of different size were summed and then consumed by
\* one advance of a timer without a crystal.
C29_Witness ==
    /\ ret.op = "run_devices"
    /\ ~machine_desc.timer_crystal
    /\ slots["pit"].present
    /\ slots["pit"].last.method = "run"
    /\ slots["pit"].last.ticks = ret.arg.sys_ticks + 3
    /\ pit_ticks_advance = 0
    /\ nruns = 2

\* C30: no write_u16 changes a ROM-flagged byte.  When the byte at address
\* is plain RAM below conventional_size and the byte at address + 1 carries
\* the ROM flag, the write leaves the byte at address + 1 as it was.
RomNeighbour(a) ==
    /\ InBounds16(a)
    /\ ~IsMmioOrRom(memory_mask[a])
    /\ a < conventional_size
    /\ IsRom(memory_mask[a + 1])

C30_RomNeighbourKept ==
    [][(ret'.op = "write_u16" /\ nops' = nops + 1) =>
          LET a == ret'.arg.address
          IN  RomNeighbour(a) => memory'[a + 1] = memory[a + 1]]_vars

\* C31: after a successful register_map(dev, descriptor), every address of
\* [address, address + size) carries the MMIO flag and its bucket of the fast
\* map holds dev, for aligned and unaligned start addresses alike.
C31_RangeResolvesToDevice ==
    [][(ret'.op = "register_map" /\ nops' = nops + 1 /\ ret'.res.ok) =>
          \A a \in Range(ret'.arg.desc) :
              /\ IsMmio(memory_mask'[a])
              /\ mmio_map_fast'[Bucket(a)] = ret'.arg.device]_vars

\* C32: when two register_map calls cover the same bucket of the fast map,
\* the bucket holds the device tag of the later call and an access to an
\* MMIO-flagged address of the bucket is dispatched by that tag (to its card,
\* or to the MMIO error when no such card is installed), while the
\* registration list keeps every entry in the order of registration.
Registrations(bucket) == {i \in DOMAIN mmio_map : bucket \in MapSegs(mmio_map[i].desc)}

Latest(bucket) ==
    mmio_map[CHOOSE i \in Registrations(bucket) : \A j \in Registrations(bucket) : j <= i]

LastWriteWins ==
    \A bucket \in DOMAIN mmio_map_fast :
        Registrations(bucket) # {} => mmio_map_fast[bucket] = Latest(bucket).device

C32_LastRegistrationDispatches ==
    [][/\ LastWriteWins'
       /\ (ret'.op = "register_map" /\ nops' = nops + 1 /\ ret'.res.ok) =>
             mmio_map' = Append(mmio_map, [desc |-> ret'.arg.desc, device |-> ret'.arg.device])
       /\ ret'.op # "register_map" => SubSeq(mmio_map', 1, Len(mmio_map)) = mmio_map
       /\ (ret'.op = "read_u8" /\ InBounds8(ret'.arg.address)
           /\ IsMmio(memory_mask[ret'.arg.address])
           /\ Registrations(Bucket(ret'.arg.address)) # {}) =>
             LET a == ret'.arg.address
                 vid == Latest(Bucket(a)).device.vid
             IN  IF vid \in DOMAIN videocards
                 THEN /\ ret'.res.ok
                      /\ videocards'[vid].last.method = "mmio_read_u8"
                      /\ videocards'[vid].last.address = a
                 ELSE ret'.res = Err("MmioError") /\ videocards' = videocards]_vars

\* A bucket registered for two different tags: the list holds both in order,
\* the bucket holds the later one, and a read was dispatched to its card.
C32_Witness ==
    /\ Len(mmio_map) >= 2
    /\ \E i \in DOMAIN mmio_map : \E j \in DOMAIN mmio_map :
          /\ i < j
          /\ mmio_map[i].device # mmio_map[j].device
          /\ mmio_map[j].device = TagVideo(VidInstalled)
          /\ MapSegs(mmio_map[i].desc) \cap MapSegs(mmio_map[j].desc) # {}
          /\ j = Len(mmio_map)
          /\ ret.op = "read_u8"
          /\ Bucket(ret.arg.address) \in MapSegs(mmio_map[i].desc) \cap MapSegs(mmio_map[j].desc)
    /\ ret.res.ok
    /\ VidInstalled \in DOMAIN videocards
    /\ videocards[VidInstalled].last.method = "mmio_read_u8"

\* C33: run_devices returns at most one event, determined by channel 1 of
\* the timer alone: a DramRefreshUpdate exactly when the channel is dirty,
\* counting and its counting element is at most its reload value, with the
\* payload (reload, 0, 0) when the element is 0 and the channel has not
\* ticked and (reload, element, timer accumulator) otherwise; a
\* DramRefreshEnable(false) exactly when the channel is not counting and
\* refresh was active; no event otherwise.  DramRefreshEnable(true) and
\* TurboToggled are never returned.
C33_EventFromChannelOne ==
    [][Inspected =>
          LET s == ret'.seen
              update == s.dirty /\ s.counting /\ s.element <= s.reload
              disable == ~s.counting /\ refresh_active
          IN  /\ ret'.res.event \in {"None", "DramRefreshUpdate", "DramRefreshEnable"}
              /\ ret'.res.event = "DramRefreshUpdate" <=> update
              /\ update => ret'.res = (IF s.element = 0 /\ ~s.ticked
                                       THEN DramRefreshUpdate(s.reload, 0, 0)
                                       ELSE DramRefreshUpdate(s.reload, s.element, s.timer_accum))
              /\ ret'.res.event = "DramRefreshEnable" <=> disable
              /\ disable => ret'.res = DramRefreshEnable(FALSE)
              /\ (~update /\ ~disable) => ret'.res = NoEvent]_vars

\* An update with the short payload: the element is 0 and the channel has
\* not ticked, while the timer's accumulator is not 0.
C33_Witness ==
    /\ ret.op = "run_devices"
    /\ "seen" \in DOMAIN ret
    /\ ret.seen.dirty /\ ret.seen.counting /\ ~ret.seen.ticked
    /\ ret.seen.element = 0
    /\ ret.seen.timer_accum > 0
    /\ ret.res = DramRefreshUpdate(ret.seen.reload, 0, 0)
    /\ refresh_active

\* C34: after every run_devices invocation refresh_active is true exactly
\* when the most recent refresh event returned so far was a
\* DramRefreshUpdate.  It is false on a new bus; an invocation that returns
\* a DramRefreshUpdate leaves it true, one that returns
\* DramRefreshEnable(false) found it true and leaves it false, and an
\* invocation without an event and every other operation leave it as it
\* was.  So DramRefreshEnable(false) is returned neither twice without a
\* DramRefreshUpdate in between nor before the first DramRefreshUpdate.
C34_RefreshActiveTracksLastEvent ==
    /\ ~refresh_active
    /\ [][IF Inspected
          THEN CASE ret'.res.event = "DramRefreshUpdate" -> refresh_active'
                 [] ret'.res.event = "DramRefreshEnable" ->
                        /\ ret'.res = DramRefreshEnable(FALSE)
                        /\ refresh_active
                        /\ ~refresh_active'
                 [] OTHER -> refresh_active' = refresh_active
          ELSE refresh_active' = refresh_active]_vars

\* The second invocation returned the refresh disable after the first had
\* returned an update.
C34_Witness ==
    /\ ret.op = "run_devices"
    /\ "seen" \in DOMAIN ret
    /\ nruns = 2
    /\ ret.res = DramRefreshEnable(FALSE)
    /\ ~refresh_active
    /\ dma_counter = 18

\* C35: tick-based (CGA) adapters lose no time.  For each installed CGA
\* adapter the system ticks delivered to it so far plus the pending
\* accumulator equal the sum of the sys_ticks of all invocations of
\* run_devices: both are 0 on a new machine, every invocation raises the
\* adapter's total by its sys_ticks, and no other operation changes it;
\* with one adapter as with several.
CgaCards == {vid \in DOMAIN videocards : vid.vtype = "CGA"}
CgaTotal(vid) == videocards[vid].delivered + cga_tick_accum

C35_CgaLosesNoTime ==
    [][/\ \A vid \in DOMAIN videocards' \ DOMAIN videocards :
             videocards'[vid].delivered + cga_tick_accum' = 0
       /\ \A vid \in CgaCards :
             (vid \in DOMAIN videocards') =>
                 videocards'[vid].delivered + cga_tick_accum'
                     = CgaTotal(vid) + (IF RunReturned THEN ret'.arg.sys_ticks ELSE 0)]_vars

\* C36: for every address of the address space, the last one included,
\* get_flags returns the flag byte stored for the address (so a ROM bit set
\* by copy_from is visible), and after set_flags(addr, f) get_flags(addr)
\* returns a value that contains every bit of f.
C36_FlagsVisibleEverywhere ==
    [][/\ (ret'.op = "get_flags" /\ ret'.arg.address < MemLen) =>
             ret'.res = memory_mask[ret'.arg.address]
       /\ \A a \in 0..(MemLen - 1) :
             (ret'.op = "set_flags" /\ nops' = nops + 1 /\ ret'.arg.address = a) =>
                 BitAnd(get_flags(a)', ret'.arg.data) = ret'.arg.data]_vars

\* C37: in every reachable state, the state directly after
\* BusInterface::new included, cycles_to_ticks[c] equals
\* cpu_cycles_to_system_ticks(c) under the current clock factor for every c
\* in 0..255, so the write paths (which read the table) and the read paths
\* (which compute the ticks) hand a device the same tick count.
C37_CycleTableCurrent ==
    \A c \in 0..(CYCLE_LUT_LEN - 1) :
        CyclesToTicks(c) = cpu_cycles_to_system_ticks(cpu_factor, c)

\* C38: on an installed machine io_read_u8 returns a byte without failing,
\* also when a device handler calls it while the device is out of its slot;
\* a read of a port owned by the device that is out returns 0xFF.
C38_PortReadNeverFails ==
    (ret.op = "io_read_u8" /\ io_map # <<>>) =>
        /\ ~panicked
        /\ (/\ "within" \in DOMAIN ret
            /\ ret.arg.port \in DOMAIN io_map
            /\ io_map[ret.arg.port].kind # "Video"
            /\ SlotOf(io_map[ret.arg.port].kind) \in ret.within.out)
               => ret.res = NO_IO_BYTE

\* C39: once the execution state is Halted, set_op accepts no operation but
\* Reset, and through set_op and Machine::run the state leaves Halted only
\* to Paused, by a run call that finds a Reset pending; Halted is never
\* followed by Running, and a run call that finds the state Halted and no
\* Reset pending executes no instruction and returns 0.
IsHalted == mach.exec.state = "Halted"

C39_HaltedLeavesOnlyByReset ==
    [][IsHalted =>
          /\ \A op \in ExecutionOperations \ {"Reset"} : set_op(mach.exec, op) = mach.exec
          /\ set_op(mach.exec, "Reset") = [mach.exec EXCEPT !.op = "Reset"]
          /\ mach'.exec.state \in {"Halted", "Paused"}
          /\ mach'.exec.state = "Paused" =>
                (mach.pc = "idle" /\ mach.exec.op = "Reset" /\ mach'.exec.op = "None")
          /\ (mach.pc = "idle" /\ mach.exec.op # "Reset" /\ mach' # mach /\ ~OutsideCall) =>
                /\ mach'.pc = "idle"
                /\ mach'.result = 0
                /\ mach'.nsteps = mach.nsteps
                /\ mach'.exec = [state |-> "Halted", op |-> "None"]]_vars

\* C40: every push (push_u8, push_u16, push_register16, push_flags) lowers
\* SP by exactly 2 modulo 2^16 and writes at the new SP and nowhere else,
\* every pop raises SP by 2 modulo 2^16, except pop_register16(SP), which
\* leaves SP equal to the word popped; so a pop_u16 right after push_u16(x)
\* returns x and leaves the SP the push found, for every starting SP, also
\* when SP or the word crosses the wrap at 0.
StackPushes == {"push_u8", "push_u16", "push_register16", "push_flags"}
StackPops == {"pop_u16", "pop_register16", "pop_flags"}
StackAddress(c, offset) == calc_linear_address(c.regs["SS"], offset % 65536)

=============================================================================
